---- MODULE Spec2Model ----
(***************************************************************************)
(* ManagedLruCache (src/stream/src/cache/managed_lru.rs): an LRU cache     *)
(* whose eviction is driven by a shared watermark epoch and whose key and  *)
(* value heap sizes are tracked in kv_heap_size and reported, throttled,   *)
(* to a gauge.                                                             *)
(*                                                                         *)
(* A value is represented by its estimated_size; an entry of the inner     *)
(* LruCache is a record [key, val, epoch]; the inner cache is a sequence   *)
(* of entries, most recently used first (the order of LruCache::iter).     *)
(* Option<T> is a sequence: << >> is None, <<x>> is Some(x), <<k, v>> is   *)
(* Some((k, v)).                                                           *)
(*                                                                         *)
(* Three more components share no state with the cache and have their own  *)
(* specifications: StoredIdGenerator (src/meta/src/manager/id.rs), the     *)
(* guard of IntGaugeExt::inc_guard (src/common/metrics/src/gauge_ext.rs)   *)
(* and cast_ok (src/frontend/src/expr/type_inference/cast.rs).             *)
(***************************************************************************)
EXTENDS Integers, Sequences, FiniteSets, TLC

VARIABLES
    inner,                          \* LruCache entries, MRU first
    cap,                            \* LruCache capacity, usize::MAX if unbounded
    cur_epoch,                      \* LruCache::cur_epoch, the local current epoch
    watermark_epoch,                \* the shared Arc<AtomicU64>
    kv_heap_size,                   \* ManagedLruCache::kv_heap_size
    last_reported_size_bytes,       \* ManagedLruCache::last_reported_size_bytes
    memory_usage_metrics,           \* value of the size gauge
    lru_evicted_watermark_time_ms,  \* value of the evicted-watermark gauge
    alive,                          \* FALSE once the cache has been dropped
    workload,                       \* value sizes and epochs the callers use
    last,                           \* the last completed call
    lastPut,                        \* per key: value of the last put, -1 if removed
    lastWrite,                      \* per key: value last put, pushed or written
    tracking,                       \* whether lastPut and lastWrite are kept
    meta_store,                     \* per category: the persisted value, << >> if none
    running,                        \* per category: whether a generator is constructed
    generation,                     \* per category: generators constructed so far
    current_id,                     \* StoredIdGenerator::current_id
    next_allocate_id,               \* StoredIdGenerator::next_allocate_id
    write_locked,                   \* per category: the RwLock is held for writing
    task,                           \* per task: its place in generate_interval
    calls,                          \* per category: intervals of the calls begun
    gen_start,                      \* per category: current_id at construction
    sequential,                     \* per category: no two calls have overlapped
    returned,                       \* the calls that have returned
    id_workload,                    \* the tasks and categories of a run
    gauge,                          \* value of the IntGauge
    gauge_start,                    \* its value before the first guard
    guards,                         \* the guards that are alive
    gauge_last,                     \* the last guard created or dropped
    cast_source,                    \* the source type of the cast
    cast_target,                    \* the target type of the cast
    cast_results                    \* per context asked: what cast_ok returned

cachevars == <<inner, cap, cur_epoch, watermark_epoch, kv_heap_size,
               last_reported_size_bytes, memory_usage_metrics,
               lru_evicted_watermark_time_ms, alive, workload, last,
               lastPut, lastWrite, tracking>>

idvars == <<meta_store, running, generation, current_id, next_allocate_id,
            write_locked, task, calls, gen_start, sequential, returned,
            id_workload>>

gaugevars == <<gauge, gauge_start, guards, gauge_last>>

castvars == <<cast_source, cast_target, cast_results>>

vars == <<cachevars, idvars, gaugevars, castvars>>

(* The components share no state: a step of one leaves the others alone. *)
CacheFrame == UNCHANGED <<idvars, gaugevars, castvars>>
IdFrame == UNCHANGED <<id_workload, cachevars, gaugevars, castvars>>
GaugeFrame == UNCHANGED <<cachevars, idvars, castvars>>
CastFrame == UNCHANGED <<cachevars, idvars, gaugevars>>

---------------------------------------------------------------------------
(* Bounds of the model *)

MaxEpoch == 1       \* the epochs are 0..MaxEpoch units of physical time
MaxStale == 3       \* bytes that kv_heap_size may hold above the resident
                    \* entries' sizes before put and clear stop adding more
UsizeBits == 28     \* width of usize

(* Program constants *)

REPORT_SIZE_EVERY_N_KB_CHANGE == 4096
EPOCH_PHYSICAL_SHIFT_BITS == 16

UsizeMax == 2^UsizeBits - 1
ReportThreshold == REPORT_SIZE_EVERY_N_KB_CHANGE * 2^10
EpochStep == 2^EPOCH_PHYSICAL_SHIFT_BITS

Keys == {"a", "b"}
KeySize == [k \in Keys |-> IF k = "a" THEN 0 ELSE 1]
Values == {1, ReportThreshold \div 2}
Epochs == {i * EpochStep : i \in 0..MaxEpoch}
Unbounded == UsizeMax
Capacities == {1, Unbounded}

(* A run uses values of a small and a large size within one epoch, or      *)
(* values of the small size over all epochs.                               *)
Workloads == {[values |-> Values, epochs |-> {0}],
              [values |-> {1}, epochs |-> Epochs]}

(* With the history of the writes kept, the values of a run are two small  *)
(* ones.                                                                   *)
HistoryWorkloads == {[values |-> {1, 2}, epochs |-> {0}],
                     [values |-> {1}, epochs |-> Epochs]}

NoKey == "none"

(* What the holder of a guard does with the value: << >> when it leaves    *)
(* the scope without a write, <<w>> when it writes a value of size w.      *)
Writes(sizes) == {<<w>> : w \in sizes} \cup {<< >>}

---------------------------------------------------------------------------
(* usize arithmetic *)

Add(a, b) == (a + b) % (UsizeMax + 1)
saturating_add(a, b) == IF a + b > UsizeMax THEN UsizeMax ELSE a + b
saturating_sub(a, b) == IF a < b THEN 0 ELSE a - b
abs_diff(a, b) == IF a < b THEN b - a ELSE a - b
AsI64(x) == IF x >= 2^(UsizeBits - 1) THEN x - 2^UsizeBits ELSE x
Min(a, b) == IF a < b THEN a ELSE b

estimated_size(v) == v
physical_time(e) == e \div 2^EPOCH_PHYSICAL_SHIFT_BITS

---------------------------------------------------------------------------
(* The inner LruCache *)

Index(s, k) ==
    IF \E i \in 1..Len(s) : s[i].key = k
    THEN CHOOSE i \in 1..Len(s) : s[i].key = k
    ELSE 0

Remove(s, i) == SubSeq(s, 1, i - 1) \o SubSeq(s, i + 1, Len(s))

Entry(k, v, e) == [key |-> k, val |-> v, epoch |-> e]

lru_contains(s, k) == Index(s, k) # 0

lru_peek(s, k) == IF Index(s, k) = 0 THEN << >> ELSE <<s[Index(s, k)].val>>

lru_get(s, e, k) ==
    IF Index(s, k) = 0 THEN s
    ELSE <<Entry(k, s[Index(s, k)].val, e)>> \o Remove(s, Index(s, k))

lru_capturing_put(s, c, e, k, v, capture) ==
    IF Index(s, k) # 0
    THEN [inner |-> <<Entry(k, v, e)>> \o Remove(s, Index(s, k)),
          ret |-> <<k, s[Index(s, k)].val>>]
    ELSE IF Len(s) = c
    THEN [inner |-> <<Entry(k, v, e)>> \o SubSeq(s, 1, Len(s) - 1),
          ret |-> IF capture THEN <<s[Len(s)].key, s[Len(s)].val>> ELSE << >>]
    ELSE [inner |-> <<Entry(k, v, e)>> \o s, ret |-> << >>]

lru_put(s, c, e, k, v) ==
    LET r == lru_capturing_put(s, c, e, k, v, FALSE)
    IN  [inner |-> r.inner,
         ret |-> IF r.ret = << >> THEN << >> ELSE <<r.ret[2]>>]

lru_push(s, c, e, k, v) == lru_capturing_put(s, c, e, k, v, TRUE)

(* The stamp of the entry whose pair a push returned, -1 without one *)
ReturnedStamp(s, ret) ==
    IF ret = << >> THEN -1 ELSE s[Index(s, ret[1])].epoch

lru_pop_lru_by_epoch(s, e) ==
    IF Len(s) > 0 /\ s[Len(s)].epoch <= e
    THEN [inner |-> SubSeq(s, 1, Len(s) - 1), ret |-> <<s[Len(s)]>>]
    ELSE [inner |-> s, ret |-> << >>]

lru_set_val(s, k, v) ==
    [i \in 1..Len(s) |-> IF s[i].key = k THEN [s[i] EXCEPT !.val = v] ELSE s[i]]

---------------------------------------------------------------------------
(* Size accounting. An accounting state is a record                        *)
(* [size, reported, gauge, set]: kv_heap_size, last_reported_size_bytes,   *)
(* the gauge's value and whether the running call has called the gauge's   *)
(* set() so far.                                                           *)

Acc == [size |-> kv_heap_size, reported |-> last_reported_size_bytes,
        gauge |-> memory_usage_metrics, set |-> FALSE]

report_memory_usage(a) ==
    IF abs_diff(a.size, a.reported) > ReportThreshold
    THEN [a EXCEPT !.gauge = AsI64(a.size), !.reported = a.size, !.set = TRUE]
    ELSE a

kv_heap_size_inc(a, size) ==
    report_memory_usage([a EXCEPT !.size = saturating_add(@, size)])

(* kv_heap_size_dec that forgets to report *)
kv_heap_size_dec_NoReport(a, size) ==
    [a EXCEPT !.size = saturating_sub(@, size)]

kv_heap_size_dec(a, size) ==
    report_memory_usage([a EXCEPT !.size = saturating_sub(@, size)])

SetAcc(a) ==
    /\ kv_heap_size' = a.size
    /\ last_reported_size_bytes' = a.reported
    /\ memory_usage_metrics' = a.gauge

---------------------------------------------------------------------------
(* Read-only queries *)

len == Len(inner)

(* An is_empty that asks whether any bytes are accounted *)
is_empty_BySize == kv_heap_size = 0

is_empty == Len(inner) = 0
contains(k) == lru_contains(inner, k)
ResidentKeys == {inner[i].key : i \in 1..Len(inner)}

(* The sum of the estimated sizes of the keys and values of the entries *)
RECURSIVE resident_size(_)
resident_size(s) ==
    IF s = << >> THEN 0
    ELSE KeySize[Head(s).key] + estimated_size(Head(s).val)
         + resident_size(Tail(s))

(* The record of a completed call: its name, its key, what it returned,    *)
(* the keys it evicted (coldest first), whether it called the size gauge's *)
(* set(), the epoch the call was given or loaded (thr: the threshold of an *)
(* eviction, the argument of update_epoch, the stamp of the entry whose    *)
(* pair a push handed back) and the value's cost at the creation of the    *)
(* guard that was dropped; -1 where they do not apply.                     *)
Call(op, k, ret, removed, set, thr, c_old) ==
    [op |-> op, k |-> k, ret |-> ret, removed |-> removed, set |-> set,
     thr |-> thr, c_old |-> c_old]


(* History of the writes, kept when tracking: a put of k records its value *)
(* in lastPut, a put, a push or a guarded write of k records it in         *)
(* lastWrite, and the removal of k forgets both.                           *)
History(newInner, putKey, writeKey, v) ==
    /\ CacheFrame
    /\ tracking' = tracking
    /\ IF tracking
       THEN /\ lastPut' = [k \in Keys |->
                            IF ~lru_contains(newInner, k) THEN -1
                            ELSE IF k = putKey THEN v
                            ELSE lastPut[k]]
            /\ lastWrite' = [k \in Keys |->
                            IF ~lru_contains(newInner, k) THEN -1
                            ELSE IF k = writeKey THEN v
                            ELSE lastWrite[k]]
       ELSE UNCHANGED <<lastPut, lastWrite>>

NoHistory == CacheFrame /\ UNCHANGED <<lastPut, lastWrite, tracking>>

---------------------------------------------------------------------------
(* The eviction loop of evict_by_epoch *)

RECURSIVE evict_loop(_, _, _, _)

(* A loop that stops after its first pop: an if for the while *)
evict_loop_Once(s, a, removed, epoch) ==
    LET p == lru_pop_lru_by_epoch(s, epoch)
    IN  IF p.ret = << >>
        THEN [inner |-> s, acc |-> a, removed |-> removed]
        ELSE [inner |-> p.inner,
              acc |-> kv_heap_size_dec(a, Add(KeySize[p.ret[1].key],
                                              estimated_size(p.ret[1].val))),
              removed |-> Append(removed, p.ret[1].key)]

(* A loop that takes only the key's size off the total *)
evict_loop_KeyCharge(s, a, removed, epoch) ==
    LET p == lru_pop_lru_by_epoch(s, epoch)
    IN  IF p.ret = << >>
        THEN [inner |-> s, acc |-> a, removed |-> removed]
        ELSE LET charge == KeySize[p.ret[1].key]
             IN  evict_loop(p.inner, kv_heap_size_dec(a, charge),
                            Append(removed, p.ret[1].key), epoch)

evict_loop(s, a, removed, epoch) ==
    LET p == lru_pop_lru_by_epoch(s, epoch)
    IN  IF p.ret = << >>
        THEN [inner |-> s, acc |-> a, removed |-> removed]
        ELSE LET charge == Add(KeySize[p.ret[1].key],
                               estimated_size(p.ret[1].val))
             IN  evict_loop(p.inner, kv_heap_size_dec(a, charge),
                            Append(removed, p.ret[1].key), epoch)

(* An eviction that records its threshold only when it evicted an entry *)
evict_by_epoch_ReportIfEvicted(op, epoch) ==
    LET r == evict_loop(inner, Acc, << >>, epoch)
    IN  /\ inner' = r.inner
        /\ SetAcc(r.acc)
        /\ lru_evicted_watermark_time_ms' =
              IF r.removed # << >> THEN physical_time(epoch)
              ELSE lru_evicted_watermark_time_ms
        /\ last' = Call(op, NoKey, << >>, r.removed, r.acc.set, epoch, -1)
        /\ History(r.inner, NoKey, NoKey, -1)

evict_by_epoch(op, epoch) ==
    LET r == evict_loop(inner, Acc, << >>, epoch)
    IN  /\ inner' = r.inner
        /\ SetAcc(r.acc)
        /\ lru_evicted_watermark_time_ms' = physical_time(epoch)
        /\ last' = Call(op, NoKey, << >>, r.removed, r.acc.set, epoch, -1)
        /\ History(r.inner, NoKey, NoKey, -1)

load_cur_epoch == watermark_epoch

----------------------------------------------------------------------------
(* StoredIdGenerator of meta/src/manager/id.rs: the generators of the      *)
(* categories over one meta store, the tasks that call generate_interval   *)
(* concurrently, and the restarts that construct a generator anew          *)

MaxCalls == 3       \* calls of generate_interval begun in a run
MaxRestarts == 1    \* generators constructed in a run after each category's
                    \* first

ID_PREALLOCATE_INTERVAL == 1000

Categories == {"actor", "test"}
Tasks == {1, 2}
Intervals == {1, ID_PREALLOCATE_INTERVAL, 2 * ID_PREALLOCATE_INTERVAL + 1}

(* The start of a category: None for test, Some(1) for actor *)
CategoryStart == [actor |-> <<1>>, test |-> << >>]

(* A run has one task that calls the generators of all categories in      *)
(* turn, or all tasks calling the generator of one category concurrently.  *)
IdWorkloads == {[tasks |-> {1}, categories |-> Categories],
                [tasks |-> Tasks, categories |-> {"actor"}]}

(* A task that is in no call *)
IdleTask == [pc |-> "idle", cat |-> "none", interval |-> 0, k |-> 0,
             id |-> 0, request_id |-> 0]

RECURSIVE SumSeq(_)
SumSeq(s) == IF s = << >> THEN 0 ELSE Head(s) + SumSeq(Tail(s))

div_ceil(a, b) == (a + b - 1) \div b

(* The calls begun in a run and not abandoned, and the generators          *)
(* constructed in it                                                       *)
CallsBegun ==
    Cardinality(returned) + Cardinality({t \in Tasks : task[t].pc # "idle"})

RECURSIVE Constructed(_)
Constructed(C) ==
    IF C = {} THEN 0
    ELSE LET c == CHOOSE x \in C : TRUE
         IN  generation[c] + Constructed(C \ {c})

(* The tasks of a crashed process never resume. *)
Abandon(c) == [t \in Tasks |-> IF task[t].cat = c THEN IdleTask ELSE task[t]]

(* The store is empty and no generator is constructed. *)
IdInit ==
    /\ id_workload \in IdWorkloads
    /\ meta_store = [c \in Categories |-> << >>]
    /\ running = [c \in Categories |-> FALSE]
    /\ generation = [c \in Categories |-> 0]
    /\ current_id = [c \in Categories |-> 0]
    /\ next_allocate_id = [c \in Categories |-> 0]
    /\ write_locked = [c \in Categories |-> FALSE]
    /\ task = [t \in Tasks |-> IdleTask]
    /\ calls = [c \in Categories |-> << >>]
    /\ gen_start = [c \in Categories |-> 0]
    /\ sequential = [c \in Categories |-> TRUE]
    /\ returned = {}

(* StoredIdGenerator::new with both store calls answered: the generator    *)
(* starts at the persisted value, or at start (0 for None) on a store      *)
(* without one, and persists the end of its first preallocated range.      *)
StoredIdGenerator_new(c, start) ==
    /\ c \in id_workload.categories
    /\ generation[c] = 0
         \/ Constructed(Categories) - Cardinality({x \in Categories : generation[x] > 0})
               < MaxRestarts
    /\ LET cur == IF meta_store[c] # << >> THEN meta_store[c][1]
                  ELSE IF start # << >> THEN start[1] ELSE 0
           next == cur + ID_PREALLOCATE_INTERVAL
       IN  /\ current_id' = [current_id EXCEPT ![c] = cur]
           /\ next_allocate_id' = [next_allocate_id EXCEPT ![c] = next]
           /\ meta_store' = [meta_store EXCEPT ![c] = <<next>>]
           /\ gen_start' = [gen_start EXCEPT ![c] = cur]
    /\ running' = [running EXCEPT ![c] = TRUE]
    /\ generation' = [generation EXCEPT ![c] = @ + 1]
    /\ write_locked' = [write_locked EXCEPT ![c] = FALSE]
    /\ task' = Abandon(c)
    /\ calls' = [calls EXCEPT ![c] = << >>]
    /\ sequential' = [sequential EXCEPT ![c] = TRUE]
    /\ UNCHANGED returned
    /\ IdFrame

(* StoredIdGenerator::new with a store call that fails: the constructor    *)
(* panics and the category is left without a generator.                    *)
StoredIdGenerator_new_panics(c) ==
    /\ generation[c] <= MaxRestarts
    /\ running[c]
    /\ running' = [running EXCEPT ![c] = FALSE]
    /\ write_locked' = [write_locked EXCEPT ![c] = FALSE]
    /\ task' = Abandon(c)
    /\ UNCHANGED <<meta_store, generation, current_id, next_allocate_id,
                   calls, gen_start, sequential, returned>>
    /\ IdFrame

(* The call returns to its caller: what it returned is kept. *)
Return(t, ok) ==
    /\ task' = [task EXCEPT ![t] = IdleTask]
    /\ returned' = returned \cup
         {[cat |-> task[t].cat, gen |-> generation[task[t].cat],
           k |-> task[t].k, id |-> task[t].id, n |-> task[t].interval,
           ok |-> ok]}

(* A fetch that hands out the same ids again: load for fetch_add *)
fetch_add_Load(t, c, interval) ==
    /\ task' = [task EXCEPT ![t] =
                  [pc |-> "read", cat |-> c, interval |-> interval,
                   k |-> Len(calls[c]) + 1, id |-> current_id[c],
                   request_id |-> 0]]
    /\ current_id' = current_id

(* A fetch that returns the value after the addition *)
fetch_add_New(t, c, interval) ==
    /\ task' = [task EXCEPT ![t] =
                  [pc |-> "read", cat |-> c, interval |-> interval,
                   k |-> Len(calls[c]) + 1,
                   id |-> current_id[c] + interval, request_id |-> 0]]
    /\ current_id' = [current_id EXCEPT ![c] = @ + interval]

(* self.current_id.fetch_add(interval): one atomic step that returns the  *)
(* value before the addition                                              *)
fetch_add(t, c, interval) ==
    /\ task' = [task EXCEPT ![t] =
                  [pc |-> "read", cat |-> c, interval |-> interval,
                   k |-> Len(calls[c]) + 1, id |-> current_id[c],
                   request_id |-> 0]]
    /\ current_id' = [current_id EXCEPT ![c] = @ + interval]

(* generate_interval up to its first await: the ids are taken. *)
generate_interval(t, c, interval) ==
    /\ t \in id_workload.tasks
    /\ c \in id_workload.categories
    /\ running[c]
    /\ task[t].pc = "idle"
    /\ CallsBegun < MaxCalls
    /\ fetch_add(t, c, interval)
    /\ calls' = [calls EXCEPT ![c] = Append(@, interval)]
    /\ sequential' = [sequential EXCEPT ![c] =
                        @ /\ \A u \in Tasks : task[u].cat # c]
    /\ UNCHANGED <<meta_store, running, generation, next_allocate_id,
                   write_locked, gen_start, returned>>
    /\ IdFrame

(* The read of next_allocate_id under the read lock and the comparison:    *)
(* a request within the preallocated range returns at once.                *)
read_next_allocate_id(t) ==
    /\ task[t].pc = "read"
    /\ ~write_locked[task[t].cat]
    /\ LET request_id == task[t].id + task[t].interval
       IN  IF request_id > next_allocate_id[task[t].cat]
           THEN /\ task' = [task EXCEPT ![t].pc = "write",
                                        ![t].request_id = request_id]
                /\ UNCHANGED returned
           ELSE Return(t, TRUE)
    /\ UNCHANGED <<meta_store, running, generation, current_id,
                   next_allocate_id, write_locked, calls, gen_start,
                   sequential>>
    /\ IdFrame

(* The write lock is taken and the request compared again: another task    *)
(* may have extended the range meanwhile.                                  *)
write_next_allocate_id(t) ==
    /\ task[t].pc = "write"
    /\ ~write_locked[task[t].cat]
    /\ IF task[t].request_id > next_allocate_id[task[t].cat]
       THEN /\ task' = [task EXCEPT ![t].pc = "put"]
            /\ write_locked' = [write_locked EXCEPT ![task[t].cat] = TRUE]
            /\ UNCHANGED returned
       ELSE /\ Return(t, TRUE)
            /\ UNCHANGED write_locked
    /\ UNCHANGED <<meta_store, running, generation, current_id,
                   next_allocate_id, calls, gen_start, sequential>>
    /\ IdFrame

(* A persist that extends the range in memory only *)
put_cf_NoStore(t) ==
    /\ task[t].pc = "put"
    /\ LET c == task[t].cat
           weight == div_ceil(task[t].request_id - next_allocate_id[c],
                              ID_PREALLOCATE_INTERVAL)
           next == next_allocate_id[c] + ID_PREALLOCATE_INTERVAL * weight
       IN  /\ meta_store' = meta_store
           /\ next_allocate_id' = [next_allocate_id EXCEPT ![c] = next]
           /\ write_locked' = [write_locked EXCEPT ![c] = FALSE]
    /\ Return(t, TRUE)
    /\ UNCHANGED <<running, generation, current_id, calls, gen_start,
                   sequential>>
    /\ IdFrame

(* A persist that extends the range by one interval whatever is asked *)
put_cf_OneInterval(t) ==
    /\ task[t].pc = "put"
    /\ LET c == task[t].cat
           next == next_allocate_id[c] + ID_PREALLOCATE_INTERVAL
       IN  /\ meta_store' = [meta_store EXCEPT ![c] = <<next>>]
           /\ next_allocate_id' = [next_allocate_id EXCEPT ![c] = next]
           /\ write_locked' = [write_locked EXCEPT ![c] = FALSE]
    /\ Return(t, TRUE)
    /\ UNCHANGED <<running, generation, current_id, calls, gen_start,
                   sequential>>
    /\ IdFrame

(* The store takes the new end of the range: it is kept in memory, the     *)
(* lock released and the id returned.                                      *)
put_cf(t) ==
    /\ task[t].pc = "put"
    /\ LET c == task[t].cat
           weight == div_ceil(task[t].request_id - next_allocate_id[c],
                              ID_PREALLOCATE_INTERVAL)
           next == next_allocate_id[c] + ID_PREALLOCATE_INTERVAL * weight
       IN  /\ meta_store' = [meta_store EXCEPT ![c] = <<next>>]
           /\ next_allocate_id' = [next_allocate_id EXCEPT ![c] = next]
           /\ write_locked' = [write_locked EXCEPT ![c] = FALSE]
    /\ Return(t, TRUE)
    /\ UNCHANGED <<running, generation, current_id, calls, gen_start,
                   sequential>>
    /\ IdFrame

(* A failed write whose error return leaves the write lock held *)
put_cf_fails_KeepsLock(t) ==
    /\ task[t].pc = "put"
    /\ Return(t, FALSE)
    /\ UNCHANGED <<meta_store, running, generation, current_id,
                   next_allocate_id, write_locked, calls, gen_start,
                   sequential>>
    /\ IdFrame

(* The store refuses the write: the ? returns the error and drops the      *)
(* lock guard.                                                             *)
put_cf_fails(t) ==
    /\ task[t].pc = "put"
    /\ write_locked' = [write_locked EXCEPT ![task[t].cat] = FALSE]
    /\ Return(t, FALSE)
    /\ UNCHANGED <<meta_store, running, generation, current_id,
                   next_allocate_id, calls, gen_start, sequential>>
    /\ IdFrame

----------------------------------------------------------------------------
(* IntGaugeExt::inc_guard of common/metrics/src/gauge_ext.rs: a gauge and  *)
(* the guards that are alive on it                                         *)

MaxGuards == 4      \* guards that may be alive at once

GuardIds == 1..MaxGuards
GaugeStarts == {0, 5}

GaugeInit ==
    /\ gauge \in GaugeStarts
    /\ gauge_start = gauge
    /\ guards = {}
    /\ gauge_last = [op |-> "new", g |-> 0]

(* Guard::create: gauge.inc() *)
Guard_create(g) ==
    /\ gauge' = gauge + 1
    /\ guards' = guards \cup {g}

(* inc_guard hands out a new guard. *)
inc_guard(g) ==
    /\ g \notin guards
    /\ Guard_create(g)
    /\ gauge_last' = [op |-> "inc_guard", g |-> g]
    /\ UNCHANGED gauge_start
    /\ GaugeFrame

(* A drop that leaves the gauge as it is *)
Guard_drop_NoDec(g) ==
    /\ g \in guards
    /\ gauge' = gauge
    /\ guards' = guards \ {g}
    /\ gauge_last' = [op |-> "drop", g |-> g]
    /\ UNCHANGED gauge_start
    /\ GaugeFrame

(* Drop for Guard: gauge.dec(), once, when the guard goes away *)
Guard_drop(g) ==
    /\ g \in guards
    /\ gauge' = gauge - 1
    /\ guards' = guards \ {g}
    /\ gauge_last' = [op |-> "drop", g |-> g]
    /\ UNCHANGED gauge_start
    /\ GaugeFrame

(* The gauge of a run that makes no guard *)
GaugeIdle == GaugeInit /\ gauge = 0

----------------------------------------------------------------------------
(* cast_ok of frontend/src/expr/type_inference/cast.rs: the cast table and *)
(* the contexts that allow a cast from one type to another                 *)

(* CastContext derives Ord: Implicit < Assign < Explicit *)
CastContext == <<"Implicit", "Assign", "Explicit">>

CastContextOrd(context) ==
    CHOOSE i \in DOMAIN CastContext : CastContext[i] = context

(* One row per source type, one character per target type in the order of  *)
(* the rows                                                                *)
CAST_TABLE ==
    <<
      <<<<".", " ", "e", " ", " ", " ", " ", " ", " ", " ", " ", " ", " ", " ", " ", "a", " ">>, "Boolean">>,
      <<<<" ", ".", "i", "i", "i", "i", "i", "i", " ", " ", " ", " ", " ", " ", " ", "a", " ">>, "Int16">>,
      <<<<"e", "a", ".", "i", "i", "i", "i", "i", " ", " ", " ", " ", " ", " ", " ", "a", " ">>, "Int32">>,
      <<<<" ", "a", "a", ".", "i", "i", "i", "i", " ", " ", " ", " ", " ", " ", " ", "a", " ">>, "Int64">>,
      <<<<" ", "a", "a", "a", ".", "i", "i", " ", " ", " ", " ", " ", " ", " ", " ", "a", " ">>, "Decimal">>,
      <<<<" ", "a", "a", "a", "a", ".", "i", " ", " ", " ", " ", " ", " ", " ", " ", "a", " ">>, "Float32">>,
      <<<<" ", "a", "a", "a", "a", "a", ".", " ", " ", " ", " ", " ", " ", " ", " ", "a", " ">>, "Float64">>,
      <<<<" ", " ", " ", " ", " ", " ", "e", ".", " ", " ", " ", " ", " ", " ", " ", "a", " ">>, "Int256">>,
      <<<<" ", " ", " ", " ", " ", " ", " ", " ", ".", "i", "i", " ", " ", " ", " ", "a", " ">>, "Date">>,
      <<<<" ", " ", " ", " ", " ", " ", " ", " ", "a", ".", "i", "a", " ", " ", " ", "a", " ">>, "Timestamp">>,
      <<<<" ", " ", " ", " ", " ", " ", " ", " ", "a", "a", ".", "a", " ", " ", " ", "a", " ">>, "Timestamptz">>,
      <<<<" ", " ", " ", " ", " ", " ", " ", " ", " ", " ", " ", ".", "i", " ", " ", "a", " ">>, "Time">>,
      <<<<" ", " ", " ", " ", " ", " ", " ", " ", " ", " ", " ", "a", ".", " ", " ", "a", " ">>, "Interval">>,
      <<<<"e", "e", "e", "e", "e", "e", "e", " ", " ", " ", " ", " ", " ", ".", " ", "a", " ">>, "Jsonb">>,
      <<<<" ", " ", " ", " ", " ", " ", " ", " ", " ", " ", " ", " ", " ", " ", ".", "a", " ">>, "Bytea">>,
      <<<<"e", "e", "e", "e", "e", "e", "e", "e", "e", "e", "e", "e", "e", "e", "e", ".", " ">>, "Varchar">>,
      <<<<" ", " ", " ", "e", " ", " ", " ", " ", " ", " ", " ", " ", " ", " ", " ", " ", ".">>, "Serial">>
    >>

(* The characters of the table: a blank and a dot are no entry. *)
CastChar == [i |-> "Implicit", a |-> "Assign", e |-> "Explicit"]

CAST_MAP ==
    LET N == DOMAIN CAST_TABLE
        Keys0 == {p \in N \X N : CAST_TABLE[p[1]][1][p[2]] \notin {" ", "."}}
    IN  [k \in {<<CAST_TABLE[p[1]][2], CAST_TABLE[p[2]][2]>> : p \in Keys0} |->
           LET p == CHOOSE q \in Keys0 :
                      k = <<CAST_TABLE[q[1]][2], CAST_TABLE[q[2]][2]>>
           IN  CastChar[CAST_TABLE[p[1]][1][p[2]]]]

(* A DataType: the name of a base type without arguments, a List of its    *)
(* element type, a Struct of its field types                               *)
Base(name) == [name |-> name, args |-> << >>]
List(elem) == [name |-> "List", args |-> <<elem>>]
Struct(fields) == [name |-> "Struct", args |-> fields]

BaseTypes == {Base(CAST_TABLE[i][2]) : i \in DOMAIN CAST_TABLE}

(* The element and field types of the composite types of a run *)
ElemTypes == {Base("Int16"), Base("Int32"), Base("Varchar")}

DataTypes ==
    BaseTypes
      \cup {List(e) : e \in ElemTypes}
      \cup {Struct(<<e>>) : e \in ElemTypes}
      \cup {Struct(<<Base("Int16"), e>>) : e \in ElemTypes}
      \cup {List(List(Base("Int32"))), List(Struct(<<Base("Int16")>>))}

(* A comparison the other way round *)
cast_ok_base_Reversed(source, target, allows) ==
    /\ <<source.name, target.name>> \in DOMAIN CAST_MAP
    /\ CastContextOrd(allows)
         <= CastContextOrd(CAST_MAP[<<source.name, target.name>>])

cast_ok_base(source, target, allows) ==
    /\ <<source.name, target.name>> \in DOMAIN CAST_MAP
    /\ CastContextOrd(CAST_MAP[<<source.name, target.name>>])
         <= CastContextOrd(allows)

RECURSIVE cast_ok(_, _, _)

cast_ok_struct(source, target, allows) ==
    IF source.name = "Struct" /\ target.name = "Struct"
    THEN /\ Len(source.args) = Len(target.args)
         /\ \A i \in 1..Len(source.args) :
               \/ source.args[i] = target.args[i]
               \/ cast_ok(source.args[i], target.args[i], allows)
    ELSE IF source.name = "Varchar" /\ target.name = "Struct"
    THEN CastContextOrd("Explicit") <= CastContextOrd(allows)
    ELSE IF source.name = "Struct" /\ target.name = "Varchar"
    THEN CastContextOrd("Assign") <= CastContextOrd(allows)
    ELSE FALSE

cast_ok_array(source, target, allows) ==
    IF source.name = "List" /\ target.name = "List"
    THEN cast_ok(source.args[1], target.args[1], allows)
    ELSE IF source.name = "Varchar" /\ target.name = "List"
    THEN CastContextOrd("Explicit") <= CastContextOrd(allows)
    ELSE IF source.name = "List" /\ target.name = "Varchar"
    THEN CastContextOrd("Assign") <= CastContextOrd(allows)
    ELSE FALSE

(* No Map is among the types of a run: every pair takes the last arm. *)
cast_ok_map(source, target, allows) ==
    IF source.name = "Map" /\ target.name = "Map"
    THEN cast_ok(List(Struct(source.args)), List(Struct(target.args)), allows)
    ELSE FALSE

cast_ok(source, target, allows) ==
    \/ cast_ok_struct(source, target, allows)
    \/ cast_ok_array(source, target, allows)
    \/ cast_ok_map(source, target, allows)
    \/ cast_ok_base(source, target, allows)

(* The pair of types of a run; no context has been asked yet. *)
CastInit ==
    /\ cast_source \in DataTypes
    /\ cast_target \in DataTypes
    /\ cast_results = [a \in {} |-> FALSE]

(* A caller asks whether the cast is allowed in a context. *)
call_cast_ok(allows) ==
    /\ allows \notin DOMAIN cast_results
    /\ cast_results' =
         [a \in DOMAIN cast_results \cup {allows} |->
            IF a = allows THEN cast_ok(cast_source, cast_target, allows)
            ELSE cast_results[a]]
    /\ UNCHANGED <<cast_source, cast_target>>
    /\ CastFrame

(* The types of a run that asks for no cast *)
CastIdle ==
    CastInit /\ cast_source = Base("Boolean") /\ cast_target = cast_source

(* The state of the other components in a run of the cache *)
IdIdle == IdInit /\ id_workload.tasks = Tasks

CacheAlone == IdIdle /\ GaugeIdle /\ CastIdle

---------------------------------------------------------------------------
(* Actions. The cache has one owner and a MutGuard borrows the cache      *)
(* mutably, so no other call of the cache runs while a call runs or a      *)
(* guard lives; the only concurrent step is the memory manager's store to  *)
(* the watermark, which evict() reads once, at its start.                   *)

(* A constructor that leaves the size gauge at the value a cache of the    *)
(* same labels reported before                                             *)
new_inner_NoSet ==
    /\ inner = << >>
    /\ cap \in Capacities
    /\ cur_epoch = 0
    /\ watermark_epoch = 0
    /\ kv_heap_size = 0
    /\ last_reported_size_bytes = 0
    /\ memory_usage_metrics \in {0, ReportThreshold + 1}
    /\ lru_evicted_watermark_time_ms = 0
    /\ alive = TRUE
    /\ last = Call("new", NoKey, << >>, << >>, FALSE, -1, -1)
    /\ lastPut = [k \in Keys |-> -1]
    /\ lastWrite = [k \in Keys |-> -1]

new_inner ==
    /\ inner = << >>
    /\ cap \in Capacities
    /\ cur_epoch = 0
    /\ watermark_epoch = 0
    /\ kv_heap_size = 0
    /\ last_reported_size_bytes = 0
    /\ memory_usage_metrics = 0
    /\ lru_evicted_watermark_time_ms = 0
    /\ alive = TRUE
    /\ last = Call("new", NoKey, << >>, << >>, TRUE, -1, -1)
    /\ lastPut = [k \in Keys |-> -1]
    /\ lastWrite = [k \in Keys |-> -1]

Init ==
    new_inner /\ workload \in Workloads /\ tracking = FALSE /\ CacheAlone

(* The external memory manager stores a larger epoch into the watermark. *)
AdvanceWatermark ==
    /\ \E e \in workload.epochs : e > watermark_epoch /\ watermark_epoch' = e
    /\ NoHistory
    /\ UNCHANGED <<inner, cap, workload, cur_epoch, kv_heap_size,
                   last_reported_size_bytes, memory_usage_metrics,
                   lru_evicted_watermark_time_ms, alive, last>>

(* An update_epoch that never lowers the local current epoch *)
update_epoch_Max(epoch) ==
    /\ alive
    /\ cur_epoch' = IF epoch > cur_epoch THEN epoch ELSE cur_epoch
    /\ last' = Call("update_epoch", NoKey, << >>, << >>, FALSE, epoch, -1)
    /\ NoHistory
    /\ UNCHANGED <<inner, cap, workload, watermark_epoch, kv_heap_size,
                   last_reported_size_bytes, memory_usage_metrics,
                   lru_evicted_watermark_time_ms, alive>>

update_epoch(epoch) ==
    /\ alive
    /\ cur_epoch' = epoch
    /\ last' = Call("update_epoch", NoKey, << >>, << >>, FALSE, epoch, -1)
    /\ NoHistory
    /\ UNCHANGED <<inner, cap, workload, watermark_epoch, kv_heap_size,
                   last_reported_size_bytes, memory_usage_metrics,
                   lru_evicted_watermark_time_ms, alive>>

(* An evict that takes the local current epoch for the watermark *)
evict_CurEpoch ==
    /\ alive
    /\ evict_by_epoch("evict", cur_epoch)
    /\ UNCHANGED <<cap, workload, cur_epoch, watermark_epoch, alive>>

evict ==
    /\ alive
    /\ evict_by_epoch("evict", load_cur_epoch)
    /\ UNCHANGED <<cap, workload, cur_epoch, watermark_epoch, alive>>

(* An evict_except_cur_epoch that takes the larger of the two epochs *)
evict_except_cur_epoch_Max ==
    /\ alive
    /\ evict_by_epoch("evict_except_cur_epoch",
                      IF load_cur_epoch > cur_epoch THEN load_cur_epoch
                      ELSE cur_epoch)
    /\ UNCHANGED <<cap, workload, cur_epoch, watermark_epoch, alive>>

(* An evict_except_cur_epoch that stores its threshold into the watermark *)
evict_except_cur_epoch_StoreThreshold ==
    /\ alive
    /\ evict_by_epoch("evict_except_cur_epoch", Min(load_cur_epoch, cur_epoch))
    /\ watermark_epoch' = Min(load_cur_epoch, cur_epoch)
    /\ UNCHANGED <<cap, workload, cur_epoch, alive>>

evict_except_cur_epoch ==
    /\ alive
    /\ evict_by_epoch("evict_except_cur_epoch", Min(load_cur_epoch, cur_epoch))
    /\ UNCHANGED <<cap, workload, cur_epoch, watermark_epoch, alive>>

(* A put that stamps the entry with the epoch of load_cur_epoch *)
put_StampWatermark(k, v) ==
    /\ alive
    /\ LET key_size == KeySize[k]
           a1 == kv_heap_size_inc(Acc, Add(key_size, estimated_size(v)))
           r == lru_put(inner, cap, load_cur_epoch, k, v)
           a2 == IF r.ret # << >>
                 THEN kv_heap_size_dec(a1, Add(key_size,
                                               estimated_size(r.ret[1])))
                 ELSE a1
       IN  /\ a2.size - resident_size(r.inner) <= MaxStale
           /\ inner' = r.inner
           /\ SetAcc(a2)
           /\ last' = Call("put", k, r.ret, << >>, a2.set, -1, -1)
           /\ History(r.inner, k, k, v)
    /\ UNCHANGED <<cap, workload, cur_epoch, watermark_epoch,
                   lru_evicted_watermark_time_ms, alive>>

(* A put that keeps the value of a resident key *)
put_KeepOld(k, v) ==
    /\ alive
    /\ LET a1 == kv_heap_size_inc(Acc, Add(KeySize[k], estimated_size(v)))
           r == IF lru_contains(inner, k)
                THEN [inner |-> lru_get(inner, cur_epoch, k),
                      ret |-> lru_peek(inner, k)]
                ELSE lru_put(inner, cap, cur_epoch, k, v)
           a2 == IF r.ret # << >>
                 THEN kv_heap_size_dec(a1, Add(KeySize[k], estimated_size(v)))
                 ELSE a1
       IN  /\ a2.size - resident_size(r.inner) <= MaxStale
           /\ inner' = r.inner
           /\ SetAcc(a2)
           /\ last' = Call("put", k, r.ret, << >>, a2.set, -1, -1)
           /\ History(r.inner, k, k, v)
    /\ UNCHANGED <<cap, workload, cur_epoch, watermark_epoch,
                   lru_evicted_watermark_time_ms, alive>>

(* A put that forgets to take the replaced value off the total *)
put_NoDec(k, v) ==
    /\ alive
    /\ LET a1 == kv_heap_size_inc(Acc, Add(KeySize[k], estimated_size(v)))
           r == lru_put(inner, cap, cur_epoch, k, v)
       IN  /\ a1.size - resident_size(r.inner) <= MaxStale
           /\ inner' = r.inner
           /\ SetAcc(a1)
           /\ last' = Call("put", k, r.ret, << >>, a1.set, -1, -1)
           /\ History(r.inner, k, k, v)
    /\ UNCHANGED <<cap, workload, cur_epoch, watermark_epoch,
                   lru_evicted_watermark_time_ms, alive>>

put(k, v) ==
    /\ alive
    /\ LET key_size == KeySize[k]
           a1 == kv_heap_size_inc(Acc, Add(key_size, estimated_size(v)))
           r == lru_put(inner, cap, cur_epoch, k, v)
           a2 == IF r.ret # << >>
                 THEN kv_heap_size_dec(a1, Add(key_size,
                                               estimated_size(r.ret[1])))
                 ELSE a1
       IN  /\ a2.size - resident_size(r.inner) <= MaxStale
           /\ inner' = r.inner
           /\ SetAcc(a2)
           /\ last' = Call("put", k, r.ret, << >>, a2.set, -1, -1)
           /\ History(r.inner, k, k, v)
    /\ UNCHANGED <<cap, workload, cur_epoch, watermark_epoch,
                   lru_evicted_watermark_time_ms, alive>>

(* A push that forgets to take the displaced entry off the total *)
push_NoDec(k, v) ==
    /\ alive
    /\ LET a1 == kv_heap_size_inc(Acc, Add(KeySize[k], estimated_size(v)))
           r == lru_push(inner, cap, cur_epoch, k, v)
       IN  /\ inner' = r.inner
           /\ SetAcc(a1)
           /\ last' = Call("push", k, r.ret, << >>, a1.set,
                           ReturnedStamp(inner, r.ret), -1)
           /\ History(r.inner, NoKey, k, v)
    /\ UNCHANGED <<cap, workload, cur_epoch, watermark_epoch,
                   lru_evicted_watermark_time_ms, alive>>

(* A push that keeps a coldest entry of the current epoch above the        *)
(* watermark and lets the cache grow past its capacity                     *)
push_SpareCurrent(k, v) ==
    /\ alive
    /\ LET spare == /\ Len(inner) = cap
                    /\ ~lru_contains(inner, k)
                    /\ inner[Len(inner)].epoch = cur_epoch
                    /\ inner[Len(inner)].epoch > load_cur_epoch
           a1 == kv_heap_size_inc(Acc, Add(KeySize[k], estimated_size(v)))
           r == IF spare THEN [inner |-> <<Entry(k, v, cur_epoch)>> \o inner,
                               ret |-> << >>]
                ELSE lru_push(inner, cap, cur_epoch, k, v)
           a2 == IF r.ret # << >>
                 THEN kv_heap_size_dec(a1, Add(KeySize[r.ret[1]],
                                               estimated_size(r.ret[2])))
                 ELSE a1
       IN  /\ inner' = r.inner
           /\ SetAcc(a2)
           /\ last' = Call("push", k, r.ret, << >>, a2.set,
                           ReturnedStamp(inner, r.ret), -1)
           /\ History(r.inner, NoKey, k, v)
    /\ UNCHANGED <<cap, workload, cur_epoch, watermark_epoch,
                   lru_evicted_watermark_time_ms, alive>>

push(k, v) ==
    /\ alive
    /\ LET a1 == kv_heap_size_inc(Acc, Add(KeySize[k], estimated_size(v)))
           r == lru_push(inner, cap, cur_epoch, k, v)
           a2 == IF r.ret # << >>
                 THEN kv_heap_size_dec(a1, Add(KeySize[r.ret[1]],
                                               estimated_size(r.ret[2])))
                 ELSE a1
       IN  /\ inner' = r.inner
           /\ SetAcc(a2)
           /\ last' = Call("push", k, r.ret, << >>, a2.set,
                           ReturnedStamp(inner, r.ret), -1)
           /\ History(r.inner, NoKey, k, v)
    /\ UNCHANGED <<cap, workload, cur_epoch, watermark_epoch,
                   lru_evicted_watermark_time_ms, alive>>

get(k) ==
    /\ alive
    /\ inner' = lru_get(inner, cur_epoch, k)
    /\ last' = Call("get", k, lru_peek(inner, k), << >>, FALSE, -1, -1)
    /\ NoHistory
    /\ UNCHANGED <<cap, workload, cur_epoch, watermark_epoch, kv_heap_size,
                   last_reported_size_bytes, memory_usage_metrics,
                   lru_evicted_watermark_time_ms, alive>>

(* A peek that looks the value up with get *)
peek_Promote(k) ==
    /\ alive
    /\ inner' = lru_get(inner, cur_epoch, k)
    /\ last' = Call("peek", k, lru_peek(inner, k), << >>, FALSE, -1, -1)
    /\ NoHistory
    /\ UNCHANGED <<cap, workload, cur_epoch, watermark_epoch, kv_heap_size,
                   last_reported_size_bytes, memory_usage_metrics,
                   lru_evicted_watermark_time_ms, alive>>

peek(k) ==
    /\ alive
    /\ last' = Call("peek", k, lru_peek(inner, k), << >>, FALSE, -1, -1)
    /\ NoHistory
    /\ UNCHANGED <<inner, cap, workload, cur_epoch, watermark_epoch,
                   kv_heap_size, last_reported_size_bytes,
                   memory_usage_metrics, lru_evicted_watermark_time_ms,
                   alive>>

(* MutGuard: new() records the value's size, the caller may write a value  *)
(* of another size through DerefMut (<<w>>, or << >> when the scope is     *)
(* left before any write), and drop() folds the difference into the total  *)
(* and reports.                                                            *)
MutGuard_new(v) == estimated_size(v)

deref_mut(s, k, w) == IF w = << >> THEN s ELSE lru_set_val(s, k, w[1])

(* A drop that forgets to take the original size off the total *)
MutGuard_drop_NoSub(a, original_val_size, new_size) ==
    report_memory_usage([a EXCEPT !.size = saturating_add(@, new_size)])

MutGuard_drop(a, original_val_size, new_size) ==
    report_memory_usage(
        [a EXCEPT !.size = saturating_add(saturating_sub(@, original_val_size),
                                          new_size)])

(* The life of the guard that op handed out for key k of the cache s *)
Guarded(op, s, k, w) ==
    LET original_val_size == MutGuard_new(lru_peek(s, k)[1])
        written == deref_mut(s, k, w)
        a == MutGuard_drop(Acc, original_val_size,
                           estimated_size(lru_peek(written, k)[1]))
    IN  /\ inner' = written
        /\ SetAcc(a)
        /\ last' = Call(op, k, lru_peek(s, k), << >>, a.set, -1,
                        original_val_size)
        /\ History(written, NoKey, IF w = << >> THEN NoKey ELSE k,
                   IF w = << >> THEN -1 ELSE w[1])

(* A lookup of a missing key that pushes the size to the gauge *)
NotFound_Report(op, k) ==
    /\ last' = Call(op, k, << >>, << >>, TRUE, -1, -1)
    /\ NoHistory
    /\ memory_usage_metrics' = AsI64(kv_heap_size)
    /\ last_reported_size_bytes' = kv_heap_size
    /\ UNCHANGED <<inner, kv_heap_size>>

NotFound(op, k) ==
    /\ last' = Call(op, k, << >>, << >>, FALSE, -1, -1)
    /\ NoHistory
    /\ UNCHANGED <<inner, kv_heap_size, last_reported_size_bytes,
                   memory_usage_metrics>>

(* A get_mut that looks the value up with peek_mut *)
get_mut_NoPromote(k, w) ==
    /\ alive
    /\ IF lru_contains(inner, k)
       THEN Guarded("get_mut", inner, k, w)
       ELSE NotFound("get_mut", k)
    /\ UNCHANGED <<cap, workload, cur_epoch, watermark_epoch,
                   lru_evicted_watermark_time_ms, alive>>

get_mut(k, w) ==
    /\ alive
    /\ IF lru_contains(inner, k)
       THEN Guarded("get_mut", lru_get(inner, cur_epoch, k), k, w)
       ELSE NotFound("get_mut", k)
    /\ UNCHANGED <<cap, workload, cur_epoch, watermark_epoch,
                   lru_evicted_watermark_time_ms, alive>>

(* A peek_mut that looks the value up with get_mut *)
peek_mut_Promote(k, w) ==
    /\ alive
    /\ IF lru_contains(inner, k)
       THEN Guarded("peek_mut", lru_get(inner, cur_epoch, k), k, w)
       ELSE NotFound("peek_mut", k)
    /\ UNCHANGED <<cap, workload, cur_epoch, watermark_epoch,
                   lru_evicted_watermark_time_ms, alive>>

peek_mut(k, w) ==
    /\ alive
    /\ IF lru_contains(inner, k)
       THEN Guarded("peek_mut", inner, k, w)
       ELSE NotFound("peek_mut", k)
    /\ UNCHANGED <<cap, workload, cur_epoch, watermark_epoch,
                   lru_evicted_watermark_time_ms, alive>>

clear ==
    /\ alive
    /\ kv_heap_size <= MaxStale
    /\ inner' = << >>
    /\ last' = Call("clear", NoKey, << >>, << >>, FALSE, -1, -1)
    /\ History(<< >>, NoKey, NoKey, -1)
    /\ UNCHANGED <<cap, workload, cur_epoch, watermark_epoch, kv_heap_size,
                   last_reported_size_bytes, memory_usage_metrics,
                   lru_evicted_watermark_time_ms, alive>>

(* A drop that leaves the gauge as it is *)
drop_NoReset ==
    /\ alive
    /\ alive' = FALSE
    /\ last' = Call("drop", NoKey, << >>, << >>, FALSE, -1, -1)
    /\ NoHistory
    /\ UNCHANGED <<inner, cap, workload, cur_epoch, watermark_epoch,
                   kv_heap_size, last_reported_size_bytes, memory_usage_metrics,
                   lru_evicted_watermark_time_ms>>

(* Drop for ManagedLruCache *)
drop ==
    /\ alive
    /\ alive' = FALSE
    /\ memory_usage_metrics' = 0
    /\ last' = Call("drop", NoKey, << >>, << >>, TRUE, -1, -1)
    /\ NoHistory
    /\ UNCHANGED <<inner, cap, workload, cur_epoch, watermark_epoch,
                   kv_heap_size, last_reported_size_bytes,
                   lru_evicted_watermark_time_ms>>

(* The owner passes update_epoch the epoch of the barrier it has received, *)
(* which never goes back; the keys, sizes and writes are any of the        *)
(* workload.                                                               *)
Next ==
    \/ AdvanceWatermark
    \/ \E e \in workload.epochs : e >= cur_epoch /\ update_epoch(e)
    \/ evict
    \/ evict_except_cur_epoch
    \/ \E k \in Keys, v \in workload.values : put(k, v)
    \/ \E k \in Keys, v \in workload.values : push(k, v)
    \/ \E k \in Keys : get(k)
    \/ \E k \in Keys : peek(k)
    \/ \E k \in Keys, w \in Writes(workload.values) : get_mut(k, w)
    \/ \E k \in Keys, w \in Writes(workload.values) : peek_mut(k, w)
    \/ clear
    \/ drop

Spec == Init /\ [][Next]_vars

(* The same cache with an owner that passes update_epoch any epoch *)
NextAnyEpoch ==
    \/ Next
    \/ \E e \in workload.epochs : update_epoch(e)

SpecAnyEpoch == Init /\ [][NextAnyEpoch]_vars

(* evict() step by step, with the memory manager's stores to the          *)
(* watermark between its steps: the load of the watermark, one turn of the *)
(* loop of evict_by_epoch for each entry that pop_lru_by_epoch hands out,  *)
(* and the report of the evicted watermark's time once it hands out None.  *)
(* While the call runs, last is the call so far, with op "evicting" and    *)
(* thr the epoch it loaded; evict() borrows the cache mutably, so no other *)
(* call runs before it returns.                                            *)
evict_begin ==
    /\ alive
    /\ last.op # "evicting"
    /\ last' = Call("evicting", NoKey, << >>, << >>, FALSE, load_cur_epoch, -1)
    /\ NoHistory
    /\ UNCHANGED <<inner, cap, workload, cur_epoch, watermark_epoch,
                   kv_heap_size, last_reported_size_bytes,
                   memory_usage_metrics, lru_evicted_watermark_time_ms,
                   alive>>

(* The turn of the loop with an epoch loaded anew *)
evict_step_Reload ==
    /\ alive
    /\ last.op = "evicting"
    /\ LET p == lru_pop_lru_by_epoch(inner, load_cur_epoch)
           a == kv_heap_size_dec(Acc, Add(KeySize[p.ret[1].key],
                                          estimated_size(p.ret[1].val)))
       IN  /\ p.ret # << >>
           /\ inner' = p.inner
           /\ SetAcc(a)
           /\ last' = [last EXCEPT !.removed = Append(@, p.ret[1].key),
                                   !.set = @ \/ a.set]
           /\ History(p.inner, NoKey, NoKey, -1)
    /\ UNCHANGED <<cap, workload, cur_epoch, watermark_epoch,
                   lru_evicted_watermark_time_ms, alive>>

(* The turn of a loop that looks at the coldest entry without popping it *)
evict_step_NoPop ==
    /\ alive
    /\ last.op = "evicting"
    /\ LET p == lru_pop_lru_by_epoch(inner, last.thr)
           a == kv_heap_size_dec(Acc, Add(KeySize[p.ret[1].key],
                                          estimated_size(p.ret[1].val)))
       IN  /\ p.ret # << >>
           /\ Len(last.removed) < Len(inner)
           /\ inner' = inner
           /\ SetAcc(a)
           /\ last' = [last EXCEPT !.removed = Append(@, p.ret[1].key),
                                   !.set = @ \/ a.set]
           /\ History(inner, NoKey, NoKey, -1)
    /\ UNCHANGED <<cap, workload, cur_epoch, watermark_epoch,
                   lru_evicted_watermark_time_ms, alive>>

evict_step ==
    /\ alive
    /\ last.op = "evicting"
    /\ LET p == lru_pop_lru_by_epoch(inner, last.thr)
           a == kv_heap_size_dec(Acc, Add(KeySize[p.ret[1].key],
                                          estimated_size(p.ret[1].val)))
       IN  /\ p.ret # << >>
           /\ inner' = p.inner
           /\ SetAcc(a)
           /\ last' = [last EXCEPT !.removed = Append(@, p.ret[1].key),
                                   !.set = @ \/ a.set]
           /\ History(p.inner, NoKey, NoKey, -1)
    /\ UNCHANGED <<cap, workload, cur_epoch, watermark_epoch,
                   lru_evicted_watermark_time_ms, alive>>

evict_end ==
    /\ alive
    /\ last.op = "evicting"
    /\ lru_pop_lru_by_epoch(inner, last.thr).ret = << >>
    /\ lru_evicted_watermark_time_ms' = physical_time(last.thr)
    /\ last' = [last EXCEPT !.op = "evict"]
    /\ NoHistory
    /\ UNCHANGED <<inner, cap, workload, cur_epoch, watermark_epoch,
                   kv_heap_size, last_reported_size_bytes,
                   memory_usage_metrics, alive>>

NextConcurrent ==
    \/ evict_begin
    \/ evict_step
    \/ evict_end
    \/ last.op = "evicting" /\ AdvanceWatermark
    \/ last.op # "evicting" /\ Next

InitConcurrent == Init /\ workload.epochs = Epochs

SpecConcurrent == InitConcurrent /\ [][NextConcurrent]_vars

(* evict() is a loop of the owner's thread without an await: once begun,   *)
(* its next turn or its exit is taken.                                     *)
SpecConcurrentFair ==
    SpecConcurrent /\ WF_vars(evict_step) /\ WF_vars(evict_end)

(* The sizes of a key and a value are added with +, which wraps in a       *)
(* build without overflow checks (Add, in the actions above) and panics in *)
(* a build with them. The actions below are the calls that panic: the      *)
(* state is the one the call has reached at the addition that overflows.   *)
Overflows(a, b) == a + b > UsizeMax

Panic(op, k) == Call("panic", k, << >>, << >>, FALSE, -1, -1)

(* put: the addition for kv_heap_size_inc comes first, the one for         *)
(* kv_heap_size_dec after inner.put has replaced the value                 *)
put_panics(k, v) ==
    /\ alive
    /\ \/ /\ Overflows(KeySize[k], estimated_size(v))
          /\ UNCHANGED <<inner, kv_heap_size, last_reported_size_bytes,
                         memory_usage_metrics>>
          /\ NoHistory
       \/ /\ ~Overflows(KeySize[k], estimated_size(v))
          /\ LET a1 == kv_heap_size_inc(Acc, Add(KeySize[k],
                                                 estimated_size(v)))
                 r == lru_put(inner, cap, cur_epoch, k, v)
             IN  /\ r.ret # << >>
                 /\ Overflows(KeySize[k], estimated_size(r.ret[1]))
                 /\ inner' = r.inner
                 /\ SetAcc(a1)
                 /\ History(r.inner, k, k, v)
    /\ last' = Panic("put", k)
    /\ UNCHANGED <<cap, workload, cur_epoch, watermark_epoch,
                   lru_evicted_watermark_time_ms, alive>>

push_panics(k, v) ==
    /\ alive
    /\ \/ /\ Overflows(KeySize[k], estimated_size(v))
          /\ UNCHANGED <<inner, kv_heap_size, last_reported_size_bytes,
                         memory_usage_metrics>>
          /\ NoHistory
       \/ /\ ~Overflows(KeySize[k], estimated_size(v))
          /\ LET a1 == kv_heap_size_inc(Acc, Add(KeySize[k],
                                                 estimated_size(v)))
                 r == lru_push(inner, cap, cur_epoch, k, v)
             IN  /\ r.ret # << >>
                 /\ Overflows(KeySize[r.ret[1]], estimated_size(r.ret[2]))
                 /\ inner' = r.inner
                 /\ SetAcc(a1)
                 /\ History(r.inner, NoKey, k, v)
    /\ last' = Panic("push", k)
    /\ UNCHANGED <<cap, workload, cur_epoch, watermark_epoch,
                   lru_evicted_watermark_time_ms, alive>>

(* The loop of evict_by_epoch up to the first entry popped whose sizes     *)
(* overflow; panicked tells whether there was one                          *)
RECURSIVE evict_loop_checked(_, _, _)
evict_loop_checked(s, a, epoch) ==
    LET p == lru_pop_lru_by_epoch(s, epoch)
    IN  IF p.ret = << >>
        THEN [inner |-> s, acc |-> a, panicked |-> FALSE]
        ELSE IF Overflows(KeySize[p.ret[1].key], estimated_size(p.ret[1].val))
        THEN [inner |-> p.inner, acc |-> a, panicked |-> TRUE]
        ELSE evict_loop_checked(
                 p.inner,
                 kv_heap_size_dec(a, Add(KeySize[p.ret[1].key],
                                         estimated_size(p.ret[1].val))),
                 epoch)

evict_panics ==
    /\ alive
    /\ \E epoch \in {load_cur_epoch, Min(load_cur_epoch, cur_epoch)} :
          LET r == evict_loop_checked(inner, Acc, epoch)
          IN  /\ r.panicked
              /\ inner' = r.inner
              /\ SetAcc(r.acc)
              /\ History(r.inner, NoKey, NoKey, -1)
    /\ last' = Panic("evict", NoKey)
    /\ UNCHANGED <<cap, workload, cur_epoch, watermark_epoch,
                   lru_evicted_watermark_time_ms, alive>>

(* Callers whose keys and values have sizes up to the largest usize, over  *)
(* two epochs                                                              *)
OverflowWorkloads == {[values |-> {1, UsizeMax}, epochs |-> {0, EpochStep}]}

NextOverflow ==
    \/ Next
    \/ \E k \in Keys, v \in workload.values : put_panics(k, v)
    \/ \E k \in Keys, v \in workload.values : push_panics(k, v)
    \/ evict_panics

InitOverflow ==
    /\ new_inner
    /\ cap = Unbounded
    /\ workload \in OverflowWorkloads
    /\ tracking = FALSE
    /\ CacheAlone

SpecOverflow == InitOverflow /\ [][NextOverflow]_vars

(* The calls of contains, len, is_empty, values and current_epoch: what    *)
(* the caller is handed is recorded in last.                               *)
Query(op, k, ret) ==
    /\ alive
    /\ last' = Call(op, k, ret, << >>, FALSE, -1, -1)
    /\ NoHistory
    /\ UNCHANGED <<inner, cap, workload, cur_epoch, watermark_epoch,
                   kv_heap_size, last_reported_size_bytes,
                   memory_usage_metrics, lru_evicted_watermark_time_ms,
                   alive>>

call_contains(k) == Query("contains", k, <<contains(k)>>)
call_len == Query("len", NoKey, <<len>>)
call_is_empty == Query("is_empty", NoKey, <<is_empty>>)
(* values that iterates from the least recently used end *)
values_LruFirst ==
    Query("values", NoKey,
          [i \in 1..Len(inner) |-> inner[Len(inner) + 1 - i].val])

values == Query("values", NoKey, [i \in 1..Len(inner) |-> inner[i].val])
current_epoch == Query("current_epoch", NoKey, <<cur_epoch>>)

NextReads ==
    \/ Next
    \/ \E k \in Keys : call_contains(k)
    \/ call_len
    \/ call_is_empty
    \/ values
    \/ current_epoch

InitReads == Init /\ workload.epochs = Epochs

SpecReads == InitReads /\ [][NextReads]_vars

(* The reading calls of a cache whose owner passes update_epoch any epoch *)
NextEpochs ==
    \/ NextAnyEpoch
    \/ call_len
    \/ current_epoch

SpecEpochs == InitReads /\ [][NextEpochs]_vars

(* The reading calls over values of two small sizes in all epochs, which   *)
(* tell the entries that values() visits apart                             *)
ValuesWorkloads == {[values |-> {1, 2}, epochs |-> Epochs]}

InitValues ==
    /\ new_inner
    /\ workload \in ValuesWorkloads
    /\ tracking = FALSE
    /\ CacheAlone

SpecValues == InitValues /\ [][NextReads]_vars

(* The caches that new_unbounded, new_with_hasher and new_with_hasher_in   *)
(* construct                                                               *)
InitUnbounded == Init /\ cap = Unbounded

SpecUnbounded == InitUnbounded /\ [][Next]_vars

(* The same cache with the history of the writes kept *)
InitHistory ==
    /\ new_inner
    /\ workload \in HistoryWorkloads
    /\ tracking = TRUE
    /\ CacheAlone

SpecHistory == InitHistory /\ [][Next]_vars

(* The cache of a run of another component: constructed and never called *)
CacheIdle ==
    /\ new_inner
    /\ cap = Unbounded
    /\ workload = [values |-> {1}, epochs |-> {0}]
    /\ tracking = FALSE

(* The id generators: restarts, and tasks that call generate_interval *)
InitId == IdInit /\ CacheIdle /\ GaugeIdle /\ CastIdle

NextId ==
    \/ \E c \in Categories : StoredIdGenerator_new(c, CategoryStart[c])
    \/ \E c \in Categories : StoredIdGenerator_new_panics(c)
    \/ \E t \in Tasks, c \in Categories, interval \in Intervals :
          generate_interval(t, c, interval)
    \/ \E t \in Tasks : read_next_allocate_id(t)
    \/ \E t \in Tasks : write_next_allocate_id(t)
    \/ \E t \in Tasks : put_cf(t)
    \/ \E t \in Tasks : put_cf_fails(t)

SpecId == InitId /\ [][NextId]_vars

(* The gauge: guards created and dropped in any order *)
InitGauge == GaugeInit /\ CacheIdle /\ IdIdle /\ CastIdle

NextGauge ==
    \/ \E g \in GuardIds : inc_guard(g)
    \/ \E g \in GuardIds : Guard_drop(g)

SpecGauge == InitGauge /\ [][NextGauge]_vars

(* The casts: a pair of types, asked in one context after another *)
InitCast == CastInit /\ CacheIdle /\ IdIdle /\ GaugeIdle

NextCast ==
    \E allows \in {"Implicit", "Assign", "Explicit"} : call_cast_ok(allows)

SpecCast == InitCast /\ [][NextCast]_vars

---------------------------------------------------------------------------
(* Properties *)

(* A step of the cache whose completed call is op: every call of the cache *)
(* records itself in last, and only the memory manager moves the watermark *)
CallStep(ops) == last'.op \in ops /\ watermark_epoch' = watermark_epoch

EvictOps == {"evict", "evict_except_cur_epoch"}
GuardOps == {"get_mut", "peek_mut"}

(* C1: kv_heap_size equals the sum of the estimated sizes of the keys and  *)
(* values of the resident entries, in every reachable state.               *)
C1_SizeInvariant == kv_heap_size = resident_size(inner)

C3_EvictsOnlyUpToThreshold ==
    [][\A i \in 1..Len(inner) :
          /\ (CallStep({"evict"}) /\ ~lru_contains(inner', inner[i].key))
                => inner[i].epoch <= watermark_epoch
          /\ (CallStep({"evict_except_cur_epoch"})
              /\ ~lru_contains(inner', inner[i].key))
                => inner[i].epoch <= Min(watermark_epoch, cur_epoch)]_vars

(* An eviction that removed an entry and spared one above its threshold *)
C3_Witness ==
    /\ last.op \in EvictOps
    /\ last.removed # << >>
    /\ inner # << >>
    /\ inner[Len(inner)].epoch > last.thr

(* C4: when the watermark is at or above the local current epoch, every    *)
(* entry stamped with the local current epoch is still resident after      *)
(* evict_except_cur_epoch(), and is gone after evict().                    *)
C4_CurrentEpochSurvives ==
    [][\A i \in 1..Len(inner) :
          (watermark_epoch >= cur_epoch /\ inner[i].epoch = cur_epoch)
             => /\ CallStep({"evict_except_cur_epoch"})
                      => lru_contains(inner', inner[i].key)
                /\ CallStep({"evict"})
                      => ~lru_contains(inner', inner[i].key)]_vars

(* C5: the life of a guard from get_mut or peek_mut, over which the value  *)
(* goes from cost c_old to cost c_new, changes kv_heap_size by exactly     *)
(* c_new - c_old, and the size invariant holds after it if it held before. *)
C5_GuardDelta ==
    [][(CallStep(GuardOps) /\ last'.ret # << >>)
          => /\ kv_heap_size' = kv_heap_size
                    - estimated_size(lru_peek(inner, last'.k)[1])
                    + estimated_size(lru_peek(inner', last'.k)[1])
             /\ kv_heap_size = resident_size(inner)
                    => kv_heap_size' = resident_size(inner')]_vars

(* A guard released after the value's cost decreased, the sizes exact *)
C5_Witness ==
    /\ last.op \in GuardOps
    /\ last.ret # << >>
    /\ last.c_old > estimated_size(lru_peek(inner, last.k)[1])
    /\ kv_heap_size = resident_size(inner)
    /\ kv_heap_size > 0

(* C6: after clear() the cache is empty, no key is contained and           *)
(* kv_heap_size is 0.                                                      *)
C6_ClearZeroes ==
    last.op = "clear" =>
        /\ len = 0
        /\ is_empty
        /\ \A k \in Keys : ~contains(k) /\ lru_peek(inner, k) = << >>
        /\ kv_heap_size = 0

(* C7 as stated: a key whose most recent put has not been followed by its  *)
(* removal holds the value of that put, and get and peek return it.        *)
C7_GetReturnsLastPut ==
    /\ \A k \in Keys :
          lastPut[k] # -1 => lru_peek(inner, k) = <<lastPut[k]>>
    /\ (last.op \in {"get", "peek"} /\ lastPut[last.k] # -1)
          => last.ret = <<lastPut[last.k]>>

(* C7 as amended: a key whose most recent write (a put, a push or a write  *)
(* through a guard) has not been followed by its removal holds the value   *)
(* of that write, and get and peek return it.                              *)
C7_GetReturnsLastWrite ==
    /\ \A k \in Keys :
          lastWrite[k] # -1 => lru_peek(inner, k) = <<lastWrite[k]>>
    /\ (last.op \in {"get", "peek"} /\ lastWrite[last.k] # -1)
          => last.ret = <<lastWrite[last.k]>>

(* A get that returned the value of a put which a push of the other key    *)
(* and an eviction have followed                                           *)
C7_Witness ==
    /\ tracking
    /\ last.op = "get"
    /\ lastPut[last.k] # -1
    /\ last.ret = <<lastPut[last.k]>>
    /\ Len(inner) = 1
    /\ lru_evicted_watermark_time_ms > 0

(* C8: once the cache has been dropped its size gauge reads 0.             *)
C8_DropZeroesGauge == ~alive => memory_usage_metrics = 0

(* A cache dropped with a tracked and a reported size above 0 *)
C8_Witness ==
    /\ ~alive
    /\ kv_heap_size > 0
    /\ last_reported_size_bytes > 0

(* C9: between the calls of a live cache the size gauge is within the      *)
(* reporting threshold of kv_heap_size.                                    *)
C9_GaugeLag ==
    alive => abs_diff(memory_usage_metrics, kv_heap_size) <= ReportThreshold

(* A live cache whose gauge has been set and lags kv_heap_size *)
C9_Witness ==
    /\ alive
    /\ last_reported_size_bytes > 0
    /\ memory_usage_metrics # kv_heap_size
    /\ last.op \in EvictOps

(* C10: a put, push, eviction or guard release that leaves kv_heap_size    *)
(* within the reporting threshold of the size reported before the call     *)
(* does not set the size gauge.                                            *)
C10_NoReportBelowThreshold ==
    [][(/\ CallStep({"put", "push"} \cup EvictOps \cup GuardOps)
        /\ abs_diff(kv_heap_size', last_reported_size_bytes) <= ReportThreshold)
          => ~last'.set]_vars

(* The keys and the stamped epochs of a cache, in its recency order *)
Stamps(s) == [i \in 1..Len(s) |-> <<s[i].key, s[i].epoch>>]

SizeOps == {"put", "push"} \cup EvictOps \cup GuardOps
LookupOps == {"get", "get_mut", "peek", "peek_mut"}

(* C11: a put, push, eviction or guard release that has set the size gauge *)
(* leaves the gauge and last_reported_size_bytes equal to the kv_heap_size *)
(* the cache has when the call returns.                                    *)
C11_ExactReport ==
    (alive /\ last.op \in SizeOps /\ last.set)
        => /\ memory_usage_metrics = kv_heap_size
           /\ last_reported_size_bytes = kv_heap_size

(* C12 as stated: whatever epochs update_epoch is passed, every resident   *)
(* entry's stamped epoch is at or below the local current epoch.           *)
C12_StampsAtMostCurrent ==
    \A i \in 1..Len(inner) : inner[i].epoch <= cur_epoch

(* C12 as amended: the stamps are at or below the local current epoch at   *)
(* construction, and every step that does not lower the local current      *)
(* epoch keeps them so: they are so as long as update_epoch has been       *)
(* passed no epoch below the current one.                                  *)
C12_StampsAtMostCurrentIfAdvancing ==
    [][((\A i \in 1..Len(inner) : inner[i].epoch <= cur_epoch)
        /\ cur_epoch' >= cur_epoch)
          => \A i \in 1..Len(inner') : inner'[i].epoch <= cur_epoch']_vars

(* An update_epoch to a later epoch, with an entry stamped in the earlier  *)
(* one and touched after it                                                *)
C12_Witness ==
    /\ last.op \in {"put", "push", "get", "get_mut"}
    /\ cur_epoch > 0
    /\ Len(inner) = 2
    /\ inner[1].epoch = cur_epoch
    /\ inner[2].epoch < cur_epoch

(* C13: the watermark never decreases; evict() uses the one epoch it       *)
(* loaded at its start for every entry; and every entry it removes is      *)
(* stamped at or below that epoch, which is at or below the watermark at   *)
(* the time of the removal, hence at every later time.                     *)
C13_NoOverEviction ==
    [][/\ watermark_epoch' >= watermark_epoch
       /\ (last.op = "evicting" /\ last'.op \in {"evicting", "evict"})
             => last'.thr = last.thr
       /\ \A i \in 1..Len(inner) :
             (/\ last'.op \in {"evicting", "evict"}
              /\ ~lru_contains(inner', inner[i].key))
                => /\ inner[i].epoch <= last'.thr
                   /\ last'.thr <= watermark_epoch]_vars

(* An evict() that has removed an entry, with the watermark stored anew    *)
(* since its load and an entry left that only the new watermark covers     *)
C13_Witness ==
    /\ last.op = "evicting"
    /\ last.removed # << >>
    /\ watermark_epoch > last.thr
    /\ inner # << >>
    /\ inner[Len(inner)].epoch > last.thr
    /\ inner[Len(inner)].epoch <= watermark_epoch

(* C14: no put, push, eviction or guard release panics on an addition     *)
(* that overflows, each leaves kv_heap_size within 0..UsizeMax, and a put  *)
(* or push that only adds an entry leaves it at the old size plus the cost *)
(* of the key and the value, saturated at UsizeMax.                        *)
C14_NoOverflow ==
    [][CallStep(SizeOps \cup {"panic"})
          => /\ last'.op # "panic"
             /\ kv_heap_size' \in 0..UsizeMax
             /\ (last'.op \in {"put", "push"} /\ last'.ret = << >>
                 /\ Len(inner') = Len(inner) + 1)
                   => kv_heap_size' = Min(UsizeMax,
                          kv_heap_size + KeySize[last'.k]
                          + estimated_size(inner'[1].val))]_vars

(* C15: a push of a new key into a cache at capacity removes exactly the   *)
(* least recently used entry, whatever its stamped epoch, returns its key  *)
(* and value, leaves len() at the capacity and changes kv_heap_size by the *)
(* cost of the new entry less the cost of the removed one, so that it is   *)
(* the sum of the costs of the remaining entries if it was the sum before. *)
C15_PushDisplacesLru ==
    [][(/\ CallStep({"push"})
        /\ Len(inner) = cap
        /\ ~lru_contains(inner, last'.k))
          => /\ last'.ret = <<inner[Len(inner)].key, inner[Len(inner)].val>>
             /\ Tail(inner') = SubSeq(inner, 1, Len(inner) - 1)
             /\ inner'[1].key = last'.k
             /\ Len(inner') = cap
             /\ kv_heap_size' = kv_heap_size
                    + KeySize[last'.k] + estimated_size(inner'[1].val)
                    - KeySize[last'.ret[1]] - estimated_size(last'.ret[2])
             /\ kv_heap_size = resident_size(inner)
                    => kv_heap_size' = resident_size(inner')]_vars

(* A push that displaced an entry stamped with the current epoch, above    *)
(* the watermark, the sizes exact                                          *)
C15_Witness ==
    /\ last.op = "push"
    /\ last.ret # << >>
    /\ last.ret[1] # last.k
    /\ len = cap
    /\ cur_epoch > watermark_epoch
    /\ inner[1].epoch = cur_epoch
    /\ kv_heap_size = resident_size(inner)
    /\ kv_heap_size > 0

(* C16: put(k, v) leaves k at the most recently used position, stamped     *)
(* with the local current epoch, returns the old value exactly when k was  *)
(* resident, and changes kv_heap_size by the cost of k and v less the cost *)
(* of the replaced entry, if any.                                          *)
C16_PutInsertsAtHead ==
    [][CallStep({"put"})
          => /\ inner'[1].key = last'.k
             /\ inner'[1].epoch = cur_epoch
             /\ \A i \in 2..Len(inner') : inner'[i].key # last'.k
             /\ last'.ret = lru_peek(inner, last'.k)
             /\ kv_heap_size' = kv_heap_size
                    + KeySize[last'.k] + estimated_size(inner'[1].val)
                    - (IF lru_contains(inner, last'.k)
                       THEN KeySize[last'.k]
                            + estimated_size(lru_peek(inner, last'.k)[1])
                       ELSE 0)]_vars

(* A put that replaced the value of a resident key that was not the most   *)
(* recently used, in a later epoch                                         *)
C16_Witness ==
    /\ last.op = "put"
    /\ last.ret # << >>
    /\ Len(inner) = 2
    /\ inner[1].epoch > inner[2].epoch

C18_ReadsChangeNothing ==
    [][CallStep({"peek", "contains", "len", "is_empty", "values",
                 "current_epoch"})
          => UNCHANGED <<inner, kv_heap_size, cur_epoch,
                         last_reported_size_bytes, memory_usage_metrics,
                         lru_evicted_watermark_time_ms>>]_vars

(* A peek of the least recently used of two entries, stamped before the    *)
(* current epoch                                                           *)
C18_Witness ==
    /\ last.op = "peek"
    /\ last.ret # << >>
    /\ Len(inner) = 2
    /\ inner[2].key = last.k
    /\ inner[2].epoch < cur_epoch

(* C19: the life of a peek_mut guard leaves the recency order and every    *)
(* stamped epoch as they were, so that evict() removes the same entries    *)
(* after it as before it.                                                  *)
C19_PeekMutKeepsOrder ==
    [][CallStep({"peek_mut"})
          => /\ Stamps(inner') = Stamps(inner)
             /\ evict_loop(inner', Acc, << >>, load_cur_epoch).removed
                    = evict_loop(inner, Acc, << >>, load_cur_epoch).removed]_vars

(* A peek_mut guard of the least recently used of two entries, stamped     *)
(* before the current epoch and at or below the watermark                  *)
C19_Witness ==
    /\ last.op = "peek_mut"
    /\ last.ret # << >>
    /\ Len(inner) = 2
    /\ inner[2].key = last.k
    /\ inner[2].epoch < cur_epoch
    /\ inner[2].epoch <= watermark_epoch
    /\ inner[1].epoch > watermark_epoch

(* C20: get, get_mut, peek and peek_mut of a key that is not resident      *)
(* return None and leave the entries, their order and stamps, the          *)
(* kv_heap_size and the gauges as they were.                               *)
C20_MissingKeyIsNone ==
    [][(CallStep(LookupOps) /\ ~lru_contains(inner, last'.k))
          => /\ last'.ret = << >>
             /\ UNCHANGED <<inner, kv_heap_size, last_reported_size_bytes,
                            memory_usage_metrics,
                            lru_evicted_watermark_time_ms, cur_epoch>>]_vars

(* A get_mut of a missing key on a cache that holds the other key, with a  *)
(* size that the gauge lags                                                *)
C20_Witness ==
    /\ last.op = "get_mut"
    /\ last.ret = << >>
    /\ inner # << >>
    /\ kv_heap_size # memory_usage_metrics

(* The keys of a cache, in its recency order *)
KeysOf(s) == [i \in 1..Len(s) |-> s[i].key]

(* The entries of s, in their order, without key k and without the keys    *)
(* that are not in t                                                       *)
Others(s, k, t) ==
    SelectSeq(s, LAMBDA e : e.key # k /\ lru_contains(t, e.key))

(* C21: a put or push leaves len() at or below the capacity and            *)
(* kv_heap_size equal to the sum of the costs of the resident entries if   *)
(* it was equal before: the entry that the call displaced is subtracted.   *)
C21_BoundedPutPushExact ==
    [][CallStep({"put", "push"})
          => /\ Len(inner') <= cap
             /\ kv_heap_size = resident_size(inner)
                    => kv_heap_size' = resident_size(inner')]_vars

C29_ValuesMruFirst ==
    [][/\ CallStep({"values"})
            => /\ last'.ret = [i \in 1..Len(inner) |-> inner[i].val]
               /\ Len(last'.ret) = Cardinality(ResidentKeys)
       /\ (CallStep({"put", "push", "get", "get_mut"})
           /\ lru_contains(inner', last'.k))
            => /\ inner'[1].key = last'.k
               /\ KeysOf(Tail(inner')) = KeysOf(Others(inner, last'.k, inner'))
       /\ CallStep({"peek", "peek_mut"})
            => KeysOf(inner') = KeysOf(inner)]_vars

(* values() of two entries, the more recently used one stamped later *)
C29_Witness ==
    /\ last.op = "values"
    /\ Len(last.ret) = 2
    /\ last.ret[1] # last.ret[2]
    /\ inner[1].epoch > inner[2].epoch
    /\ inner[1].key = "a"

(* C30: every evict() that has begun returns; each of its turns removes    *)
(* the coldest entry, one at a time from the least recently used end, and  *)
(* the turn that finds no entry to pop ends it, so that it looks at one    *)
(* entry more than it removes; an eviction leaves the entries that it did  *)
(* not remove in their order.                                              *)
C30_EvictTerminatesInOrder ==
    /\ [][/\ (last.op = "evicting" /\ last'.op = "evicting"
              /\ watermark_epoch' = watermark_epoch)
                => /\ inner # << >>
                   /\ inner' = SubSeq(inner, 1, Len(inner) - 1)
                   /\ last'.removed
                        = Append(last.removed, inner[Len(inner)].key)
          /\ (last.op = "evicting" /\ last'.op = "evict")
                => /\ inner' = inner
                   /\ last'.removed = last.removed
          /\ (last.op # "evicting" /\ CallStep(EvictOps))
                => /\ inner' = SubSeq(inner, 1,
                                      Len(inner) - Len(last'.removed))
                   /\ \A j \in 1..Len(last'.removed) :
                         last'.removed[j] = inner[Len(inner) + 1 - j].key
         ]_vars
    /\ (last.op = "evicting") ~> (last.op = "evict")

(* An evict() that has removed two entries in two turns *)
C30_Witness ==
    /\ last.op = "evict"
    /\ Len(last.removed) = 2
    /\ last.removed[1] # last.removed[2]
    /\ lru_evicted_watermark_time_ms > 0

(* The calls of generate_interval on the generators constructed so far     *)
(* that hold ids: those that have returned and those in flight             *)
Taken ==
    {[cat |-> r.cat, gen |-> r.gen, k |-> r.k, id |-> r.id, n |-> r.n] :
        r \in returned}
      \cup {[cat |-> task[t].cat, gen |-> generation[task[t].cat],
             k |-> task[t].k, id |-> task[t].id, n |-> task[t].interval] :
                t \in {u \in Tasks : task[u].pc # "idle"}}

RECURSIVE SumOfN(_)
SumOfN(S) ==
    IF S = {} THEN 0
    ELSE LET r == CHOOSE x \in S : TRUE IN r.n + SumOfN(S \ {r})

(* No task is in a call of the category's generator. *)
Quiescent(c) == \A t \in Tasks : task[t].cat # c

(* No call of the category's present generator has returned an error. *)
NoFailure(c) ==
    \A r \in returned : (r.cat = c /\ r.gen = generation[c]) => r.ok

(* s + 1000 * k for the least k >= 1 with s + 1000 * k >= unissued *)
Preallocated(s, unissued) ==
    LET K == 1..((unissued - s) \div ID_PREALLOCATE_INTERVAL + 1)
        k == CHOOSE i \in K :
               /\ s + ID_PREALLOCATE_INTERVAL * i >= unissued
               /\ \A j \in 1..(i - 1) :
                     s + ID_PREALLOCATE_INTERVAL * j < unissued
    IN  s + ID_PREALLOCATE_INTERVAL * k

(* C23: the ranges [id, id + n) of the calls of generate_interval on one   *)
(* generator, returned or in flight, are pairwise disjoint.                *)
C23_RangesDisjoint ==
    \A r1, r2 \in Taken :
        (r1 # r2 /\ r1.cat = r2.cat /\ r1.gen = r2.gen)
          => (r1.id + r1.n <= r2.id \/ r2.id + r2.n <= r1.id)

(* Two calls that overlapped in time and have both returned ids, one of    *)
(* them after extending the preallocated range                             *)
C23_Witness ==
    \E r1, r2 \in returned :
        /\ r1.cat = r2.cat /\ r1.gen = r2.gen /\ r1.k < r2.k
        /\ r1.ok /\ r2.ok
        /\ ~sequential[r1.cat]
        /\ r2.id + r2.n > gen_start[r1.cat] + ID_PREALLOCATE_INTERVAL
        /\ r1.gen = generation[r1.cat]

(* C24: once generate_interval(n) has returned Ok(id), the value persisted *)
(* for the category is at least id + n, and a generator constructed later  *)
(* on the same store and category returns only greater ids.                *)
C24_PersistedCoversIssued ==
    /\ \A r \in returned :
          r.ok => /\ meta_store[r.cat] # << >>
                  /\ meta_store[r.cat][1] >= r.id + r.n
    /\ \A r1, r2 \in returned :
          (r1.ok /\ r2.ok /\ r1.cat = r2.cat /\ r1.gen < r2.gen)
            => r2.id > r1.id

(* An id returned after a restart, with an id returned before it by a call *)
(* that had to extend the preallocated range                               *)
C24_Witness ==
    \E r1, r2 \in returned :
        /\ r1.ok /\ r2.ok /\ r1.cat = r2.cat /\ r1.gen < r2.gen
        /\ r1.n > ID_PREALLOCATE_INTERVAL

(* C25: on a generator that started at s, a sequential call that returns   *)
(* an id returns s plus the intervals of the successful calls before it.   *)
C25_SuccessfulCallsSequence ==
    [][\A r \in returned' \ returned :
          (r.ok /\ sequential[r.cat])
            => r.id = gen_start[r.cat]
                        + SumOfN({q \in returned :
                                    /\ q.cat = r.cat /\ q.gen = r.gen
                                    /\ q.k < r.k /\ q.ok})]_vars

(* C25 as amended: a call that returns an id returns s plus the intervals  *)
(* of all the calls begun before it on the generator, those that returned  *)
(* an error included; the calls of other categories do not count.          *)
C25_CallsSequence ==
    [][\A r \in returned' \ returned :
          r.ok => r.id = gen_start[r.cat]
                           + SumSeq(SubSeq(calls[r.cat], 1, r.k - 1))]_vars

(* A sequential call that returns an id after a call that returned an      *)
(* error, while the other category has issued ids of its own               *)
C25_Witness ==
    \E r1, r2, r3 \in returned :
        /\ r1.cat = r2.cat /\ r1.gen = r2.gen /\ r1.k < r2.k
        /\ ~r1.ok /\ r2.ok
        /\ sequential[r1.cat]
        /\ r1.gen = generation[r1.cat]
        /\ r3.cat # r1.cat /\ r3.ok

(* C26: after successful sequential calls on a generator that started at   *)
(* s, the persisted value is s + 1000 * k for the least k >= 1 that        *)
(* reaches the next unissued id; a generator constructed on a store that   *)
(* holds a value starts at that value and issues it first.                 *)
C26_Preallocation ==
    [][\A c \in Categories :
          /\ (running[c] /\ sequential[c] /\ Quiescent(c) /\ NoFailure(c))'
                => meta_store'[c]
                     = <<Preallocated(gen_start'[c], current_id'[c])>>
          /\ (generation'[c] > generation[c] /\ meta_store[c] # << >>)
                => /\ current_id'[c] = meta_store[c][1]
                   /\ gen_start'[c] = meta_store[c][1]
          /\ \A r \in returned' \ returned :
                (r.cat = c /\ r.k = 1 /\ r.ok) => r.id = gen_start[c]]_vars

(* The first id of a second generator, after a first one whose calls have  *)
(* extended the preallocated range by more than one interval               *)
C26_Witness ==
    \E c \in Categories :
        /\ generation[c] > 1
        /\ running[c] /\ sequential[c] /\ Quiescent(c) /\ NoFailure(c)
        /\ \E r \in returned :
              /\ r.cat = c /\ r.gen = generation[c] /\ r.k = 1 /\ r.ok
              /\ r.id = gen_start[c]
              /\ r.id > 3 * ID_PREALLOCATE_INTERVAL

(* C27: the gauge is its value before the first guard plus the number of   *)
(* guards alive: a guard adds one when it is created and takes one away    *)
(* when it is dropped.                                                     *)
C27_GaugeCountsLiveGuards ==
    gauge = gauge_start + Cardinality(guards)

(* A guard dropped while guards created before and after it are alive *)
C27_Witness ==
    /\ gauge_last = [op |-> "drop", g |-> 2]
    /\ guards = {1, 3}
    /\ gauge_start # 0

(* C28: a cast allowed in the implicit context is allowed in the           *)
(* assignment context, and one allowed in the assignment context is        *)
(* allowed in the explicit context; some casts of the table are allowed in *)
(* the wider context only.                                                 *)
C28_CastContextsNested ==
    /\ ({"Implicit", "Assign"} \subseteq DOMAIN cast_results
        /\ cast_results["Implicit"]) => cast_results["Assign"]
    /\ ({"Assign", "Explicit"} \subseteq DOMAIN cast_results
        /\ cast_results["Assign"]) => cast_results["Explicit"]
    /\ \E s, t \in BaseTypes :
          cast_ok(s, t, "Assign") /\ ~cast_ok(s, t, "Implicit")
    /\ \E s, t \in BaseTypes :
          cast_ok(s, t, "Explicit") /\ ~cast_ok(s, t, "Assign")

(* A pair of base types asked in the three contexts, allowed from the      *)
(* assignment context on                                                   *)
C28_Witness ==
    /\ cast_source \in BaseTypes
    /\ cast_target \in BaseTypes
    /\ DOMAIN cast_results = {"Implicit", "Assign", "Explicit"}
    /\ ~cast_results["Implicit"]
    /\ cast_results["Assign"]
    /\ cast_results["Explicit"]

(* C31: every call of evict() and of evict_except_cur_epoch() records the  *)
(* threshold it used, translated to physical time, in the last evicted     *)
(* watermark gauge: the watermark for evict(), the smaller of watermark    *)
(* and local_current_epoch for evict_except_cur_epoch(), also when no      *)
(* entry was evicted and when the cache is empty; an eviction that runs    *)
(* step by step records the threshold it loaded when its loop ends, and    *)
(* its loop does end.                                                      *)
C31_EvictRecordsThreshold ==
    /\ [][/\ (last.op # "evicting" /\ CallStep({"evict"}))
              => /\ last'.thr = watermark_epoch
                 /\ lru_evicted_watermark_time_ms' =
                       physical_time(watermark_epoch)
          /\ CallStep({"evict_except_cur_epoch"})
              => /\ last'.thr = Min(watermark_epoch, cur_epoch)
                 /\ lru_evicted_watermark_time_ms' =
                       physical_time(Min(watermark_epoch, cur_epoch))
          /\ (last.op = "evicting" /\ last'.op = "evict")
              => lru_evicted_watermark_time_ms' = physical_time(last.thr)]_vars
    /\ (last.op = "evicting")
          ~> (last.op = "evict"
              /\ lru_evicted_watermark_time_ms = physical_time(last.thr))

(* An eviction of the empty cache that evicted nothing and recorded a      *)
(* threshold other than the gauge's initial value                          *)
C31_Witness ==
    /\ last.op \in EvictOps
    /\ last.removed = << >>
    /\ inner = << >>
    /\ last.thr > 0
    /\ lru_evicted_watermark_time_ms = physical_time(last.thr)
    /\ lru_evicted_watermark_time_ms > 0

(* C32: an eviction takes the cost of each entry it removes, key and       *)
(* value, off kv_heap_size and one off len() per removed entry; the        *)
(* entries it leaves are the hotter part of the cache as it was, with      *)
(* their values, stamps and order.                                         *)
C32_EvictionAccounting ==
    [][CallStep(EvictOps)
       => LET n == Len(last'.removed)
              m == Len(inner) - n
          IN  /\ n <= Len(inner)
              /\ Len(inner') = m
              /\ inner' = SubSeq(inner, 1, m)
              /\ \A j \in 1..n : last'.removed[j] = inner[Len(inner) + 1 - j].key
              /\ kv_heap_size' = kv_heap_size
                                 - (resident_size(inner) - resident_size(inner'))]_vars

(* The older of two entries was evicted and the younger, stamped above the *)
(* threshold, is the only entry left, the total being its cost             *)
C32_Witness ==
    /\ last.op \in EvictOps
    /\ Len(last.removed) = 1
    /\ Len(inner) = 1
    /\ inner[1].epoch > last.thr
    /\ kv_heap_size = KeySize[inner[1].key] + estimated_size(inner[1].val)
    /\ kv_heap_size > 0

(* C33: update_epoch(e) sets local_current_epoch to e, for an e below the  *)
(* previous value as well, and changes nothing else: not the entries,      *)
(* their stamps or their order, not kv_heap_size, not a gauge;             *)
(* current_epoch() returns the value set, and the entry that the next put, *)
(* push, get or get_mut inserts or promotes is stamped with it.            *)
C33_UpdateEpochFrame ==
    [][/\ CallStep({"update_epoch"})
          => /\ cur_epoch' = last'.thr
             /\ UNCHANGED <<inner, cap, watermark_epoch, kv_heap_size,
                            last_reported_size_bytes, memory_usage_metrics,
                            lru_evicted_watermark_time_ms, alive>>
       /\ CallStep({"current_epoch"})
          => /\ last'.ret = <<cur_epoch>>
             /\ last.op = "update_epoch" => last'.ret = <<last.thr>>
       /\ (CallStep({"put", "push", "get", "get_mut"})
           /\ lru_contains(inner', last'.k))
          => /\ inner'[1].key = last'.k
             /\ inner'[1].epoch = cur_epoch
             /\ \A i \in 2..Len(inner') :
                   \E j \in 1..Len(inner) : inner[j] = inner'[i]]_vars

(* update_epoch lowered the local current epoch below the stamp of a       *)
(* resident entry, which kept its stamp                                    *)
C33_Witness ==
    /\ last.op = "update_epoch"
    /\ last.thr = cur_epoch
    /\ inner # << >>
    /\ inner[1].epoch > cur_epoch
    /\ kv_heap_size > 0

(* C34: the cache only reads the shared watermark: a step of a cache       *)
(* operation (evict, evict_except_cur_epoch, update_epoch, clear and drop  *)
(* among them, and each step of an eviction under way) leaves the          *)
(* watermark's value as it is, and a step that changes the watermark       *)
(* raises it and changes nothing of the cache, local_current_epoch         *)
(* included.                                                               *)
C34_WatermarkReadOnly ==
    [][/\ last' # last => watermark_epoch' = watermark_epoch
       /\ watermark_epoch' # watermark_epoch
          => /\ watermark_epoch' > watermark_epoch
             /\ UNCHANGED <<inner, cap, cur_epoch, kv_heap_size,
                            last_reported_size_bytes, memory_usage_metrics,
                            lru_evicted_watermark_time_ms, alive, last>>]_vars

(* The watermark was advanced past a local current epoch that stayed       *)
(* behind, and evict_except_cur_epoch read it and left it in place         *)
C34_Witness ==
    /\ last.op = "evict_except_cur_epoch"
    /\ watermark_epoch > cur_epoch
    /\ last.thr = cur_epoch
    /\ last.removed # << >>

(* C35: the keys of the resident entries are distinct and len() returns    *)
(* their number; is_empty() returns true exactly when len() is 0; a put or *)
(* a push of a key that is resident leaves len() as it was.                *)
C35_KeysUniqueLenCounts ==
    [][/\ \A i, j \in 1..Len(inner') :
             inner'[i].key = inner'[j].key => i = j
       /\ CallStep({"len"})
          => last'.ret = <<Cardinality(ResidentKeys)>>
       /\ CallStep({"is_empty"})
          => last'.ret = <<Cardinality(ResidentKeys) = 0>>
       /\ (CallStep({"put", "push"}) /\ last'.k \in ResidentKeys)
          => /\ Len(inner') = Len(inner)
             /\ ResidentKeys' = ResidentKeys]_vars

(* A push of the colder of two resident keys: it returned the old pair and *)
(* two entries are resident as before                                      *)
C35_Witness ==
    /\ last.op = "push"
    /\ last.ret # << >>
    /\ last.ret[1] = last.k
    /\ Len(inner) = 2
    /\ inner[1].key = last.k
    /\ cap = Unbounded

(* C36: a push of a new key on a bounded cache at capacity removes the     *)
(* least recently used entry and hands its pair back whatever its stamp:   *)
(* also an entry stamped with local_current_epoch above the watermark,     *)
(* which evict_except_cur_epoch() called in its place would have kept.     *)
C36_PushDisplacesAnyEpoch ==
    [][(/\ CallStep({"push"})
        /\ cap # Unbounded
        /\ Len(inner) = cap
        /\ last'.k \notin ResidentKeys)
       => LET lru == inner[Len(inner)]
              thr == Min(load_cur_epoch, cur_epoch)
          IN  /\ last'.ret = <<lru.key, lru.val>>
              /\ last'.thr = lru.epoch
              /\ ~lru_contains(inner', lru.key)
              /\ Len(inner') = cap
              /\ (lru.epoch = cur_epoch /\ lru.epoch > watermark_epoch)
                 => lru_contains(evict_loop(inner, Acc, << >>, thr).inner,
                                 lru.key)]_vars

(* A push at capacity handed back the pair of another key whose entry was  *)
(* stamped with the local current epoch, above the watermark               *)
C36_Witness ==
    /\ last.op = "push"
    /\ cap # Unbounded
    /\ Len(inner) = cap
    /\ last.ret # << >>
    /\ last.ret[1] # last.k
    /\ last.thr = cur_epoch
    /\ last.thr > watermark_epoch

C38_ExceptCurEpochRefinesEvict ==
    [][CallStep({"evict_except_cur_epoch"})
       => LET e == evict_loop(inner, Acc, << >>, load_cur_epoch)
          IN  /\ last'.thr = Min(load_cur_epoch, cur_epoch)
              /\ watermark_epoch <= cur_epoch
                 => /\ inner' = e.inner
                    /\ kv_heap_size' = e.acc.size
                    /\ last_reported_size_bytes' = e.acc.reported
                    /\ memory_usage_metrics' = e.acc.gauge
                    /\ lru_evicted_watermark_time_ms' =
                          physical_time(load_cur_epoch)
                    /\ last'.removed = e.removed
              /\ \A i \in 1..Len(e.inner) : lru_contains(inner', e.inner[i].key)
              /\ \A j \in 1..Len(last'.removed) :
                    \E i \in 1..Len(e.removed) :
                       e.removed[i] = last'.removed[j]]_vars

(* evict_except_cur_epoch() with the watermark past local_current_epoch    *)
(* kept an entry that evict() would have removed                           *)
C38_Witness ==
    /\ last.op = "evict_except_cur_epoch"
    /\ watermark_epoch > cur_epoch
    /\ last.thr = cur_epoch
    /\ inner # << >>
    /\ inner[Len(inner)].epoch <= watermark_epoch

(* C39: evict() is idempotent at a fixed watermark: an evict() that        *)
(* follows an evict() with no call in between and the watermark where the  *)
(* first one loaded it removes nothing and leaves the entries, their       *)
(* order, kv_heap_size, last_reported_size and the gauges as they were.    *)
C39_EvictIdempotent ==
    [][(/\ last.op = "evict"
        /\ last.thr = watermark_epoch
        /\ CallStep({"evict"}))
       => /\ last'.removed = << >>
          /\ last'.thr = last.thr
          /\ ~last'.set
          /\ UNCHANGED <<inner, kv_heap_size, last_reported_size_bytes,
                         memory_usage_metrics,
                         lru_evicted_watermark_time_ms>>]_vars

(* An evict() at the watermark that found entries resident, all stamped    *)
(* above it, and removed none: the state a repeated evict() leaves         *)
C39_Witness ==
    /\ last.op = "evict"
    /\ last.thr = watermark_epoch
    /\ last.removed = << >>
    /\ ~last.set
    /\ Len(inner) = 2
    /\ inner[Len(inner)].epoch > watermark_epoch
    /\ lru_evicted_watermark_time_ms = physical_time(watermark_epoch)

(* The calls that return an error in this step *)
FailingNow == {r \in returned' \ returned : ~r.ok}

(* C40: when the store's write inside generate_interval fails, the call    *)
(* returns the error, the generator's next_allocate_id and the persisted   *)
(* value stay as they were, the write lock is released and current_id      *)
(* stays past the ids the call took, so that no later successful call on   *)
(* that generator returns an id of the failed call's range.                *)
C40_FailedPersist ==
    [][/\ \A r \in FailingNow :
             /\ UNCHANGED <<meta_store, next_allocate_id, current_id>>
             /\ write_locked[r.cat] /\ ~write_locked'[r.cat]
             /\ r.id + r.n > next_allocate_id[r.cat]
             /\ current_id[r.cat] >= r.id + r.n
       /\ \A r1, r2 \in returned' :
             (/\ ~r1.ok /\ r2.ok
              /\ r1.cat = r2.cat /\ r1.gen = r2.gen /\ r1.k < r2.k)
             => r2.id >= r1.id + r1.n]_vars

(* A call failed in the store's write and a later call on the same         *)
(* generator wrote to the store and returned the first id past the failed  *)
(* call's range, the lock being free again                                 *)
C40_Witness ==
    \E r1, r2 \in returned :
        /\ ~r1.ok /\ r2.ok
        /\ r1.cat = r2.cat /\ r1.gen = r2.gen /\ r2.k > r1.k
        /\ r2.id = r1.id + r1.n
        /\ ~write_locked[r1.cat]
        /\ meta_store[r1.cat] # << >>
        /\ meta_store[r1.cat][1] >= r2.id + r2.n

====
